---------------------------- MODULE Spec2Model ----------------------------
(***************************************************************************)
(* Persistent collections of l1x-sdk (LookupMap, LookupSet, Vector over    *)
(* IndexMap) and the write-back cache between them and the key-value       *)
(* store.  One invocation owns one collection; the store outlives it.      *)
(***************************************************************************)
EXTENDS Integers, Sequences, FiniteSets, TLC

(***************************************************************************)
(* Bounds of the model.                                                    *)
(***************************************************************************)
NumKeys == 2          \* logical keys of a LookupMap / LookupSet: 1..NumKeys
MaxLen == 3           \* a Vector is not pushed beyond this length

Keys == 1..NumKeys
Indices == 0..(MaxLen - 1)
Values == {10, -3}    \* i32 payloads (TestValue); one of them negative
UnitValue == 0        \* the only value of type ()

(***************************************************************************)
(* Option<T> and OnceCell<T>: the empty sequence is None / an empty cell.  *)
(***************************************************************************)
None == <<>>
Some(x) == <<x>>
IsSome(o) == o # <<>>
Unwrap(o) == o[1]

(***************************************************************************)
(* Borsh encodings.  i32 / u32: four bytes, little endian, two's           *)
(* complement.  (): no bytes.  try_from_slice fails unless the slice is    *)
(* consumed exactly.                                                       *)
(***************************************************************************)
\* byte n of the two's complement form of x (\div rounds down, % is never negative)
ByteAt(x, n) == (x \div (256 ^ n)) % 256

to_le_bytes(x) == <<ByteAt(x, 0), ByteAt(x, 1), ByteAt(x, 2), ByteAt(x, 3)>>

\* i32::from_le_bytes: the top byte carries the sign
from_le_bytes(b) ==
    b[1] + 256 * b[2] + 65536 * b[3] + 16777216 * (IF b[4] >= 128 THEN b[4] - 256 ELSE b[4])

\* A u32 is held as the integer with the same 32 bits: 0 .. 2^31 - 1 as
\* themselves, 2^31 .. 2^32 - 1 as the negative numbers down from -1, so that
\* to_le_bytes and from_le_bytes encode and decode it as borsh does.
\* x = u32::MAX: all 32 bits set
IsU32Max(x) == to_le_bytes(x) = <<255, 255, 255, 255>>

\* a >= b as u32
u32_ge(a, b) == IF (a < 0) = (b < 0) THEN a >= b ELSE a < 0

\* u32::checked_add that wraps around instead of failing
wrapping_add_one(x) == IF IsU32Max(x) THEN Some(0) ELSE Some(x + 1)

\* u32::checked_add(x, 1)
checked_add_one(x) == IF IsU32Max(x) THEN None ELSE Some(x + 1)

serialize(vt, v) == IF vt = "unit" THEN <<>> ELSE to_le_bytes(v)

\* a value type whose BorshSerialize impl returns Err for one value, Poison,
\* and encodes every other value as i32 does; i32 and () always serialize
Poison == 13

CanSerialize(vt, v) == vt # "fallible" \/ v # Poison

CanDeserialize(vt, bytes) == IF vt = "unit" THEN Len(bytes) = 0 ELSE Len(bytes) = 4

try_from_slice(vt, bytes) == IF vt = "unit" THEN UnitValue ELSE from_le_bytes(bytes)

CorruptBytes == <<7>>   \* stored bytes no value type of the model decodes

(***************************************************************************)
(* The store collaborator: a partial map from physical key to bytes.       *)
(* Every call is appended to the log of the running operation.             *)
(***************************************************************************)
ReadOp(key) == [op |-> "read", key |-> key, val |-> <<>>]
WriteOp(key, bytes) == [op |-> "write", key |-> key, val |-> bytes]
RemoveOp(key) == [op |-> "remove", key |-> key, val |-> <<>>]

storage_read(s, key) == IF key \in DOMAIN s THEN Some(s[key]) ELSE None

\* a write that keeps the bytes of a key the store already holds
storage_write_if_absent(s, key, bytes) ==
    [x \in (DOMAIN s) \cup {key} |-> IF x \in DOMAIN s THEN s[x] ELSE bytes]

storage_write(s, key, bytes) ==
    [x \in (DOMAIN s) \cup {key} |-> IF x = key THEN bytes ELSE s[x]]

storage_remove(s, key) == [x \in (DOMAIN s) \ {key} |-> s[x]]

\* what the calls return: storage_write its is_new_insertion, storage_remove
\* whether the map held the key
storage_write_returns(s, key) == ~(key \in DOMAIN s)

storage_remove_returns(s, key) == key \in DOMAIN s

(***************************************************************************)
(* CacheEntry<T>                                                           *)
(***************************************************************************)
\* new_cached() that builds a Modified entry
new_cached_as_modified(value) == [value |-> value, state |-> "Modified"]

new_cached(value) == [value |-> value, state |-> "Cached"]

\* new_modified() that builds a Cached entry
new_modified_as_cached(value) == [value |-> value, state |-> "Cached"]

new_modified(value) == [value |-> value, state |-> "Modified"]

\* value_mut() that hands out the value and leaves the state as it was
value_mut_keeps_state(entry, value) == [value |-> value, state |-> entry.state]

\* the entry after value_mut() and an assignment of `value` through the handle
value_mut(entry, value) == [value |-> value, state |-> "Modified"]



\* replace() that marks the entry Modified whatever the values are
replace_always_modified(entry, value) == [value |-> value, state |-> "Modified"]

\* replace() that forgets to mark the entry Modified
replace_keeps_state(entry, value) == [value |-> value, state |-> entry.state]

replace(entry, value) ==
    [value |-> value,
     state |-> IF IsSome(value) \/ IsSome(entry.value) THEN "Modified" ELSE entry.state]


\* replace_state() that leaves the state as it was
replace_state_noop(entry, state) == entry

replace_state(entry, state) == [entry EXCEPT !.state = state]

is_modified(entry) == entry.state = "Modified"

(***************************************************************************)
(* StableMap<K, V>: get / get_mut insert a default slot when the key has   *)
(* none and never touch another key's slot.  The cache is a function whose *)
(* domain is the set of keys of the BTreeMap.                              *)
(***************************************************************************)
\* a get that keeps the slot of the key asked for and evicts every other
StableMap_get_evicting(cache, k, default) ==
    [x \in {k} |-> IF k \in DOMAIN cache THEN cache[k] ELSE default]

StableMap_get(cache, k, default) ==
    IF k \in DOMAIN cache
    THEN cache
    ELSE [x \in (DOMAIN cache) \cup {k} |-> IF x = k THEN default ELSE cache[x]]

EmptyCache == [x \in {} |-> None]

Put(cache, k, slot) == [cache EXCEPT ![k] = slot]

\* the keys in descending order
RECURSIVE InOrder_descending(_)
InOrder_descending(S) ==
    IF S = {} THEN <<>>
    ELSE LET m == CHOOSE x \in S : \A y \in S : x >= y
         IN  <<m>> \o InOrder_descending(S \ {m})

\* the keys of a BTreeMap in iteration (ascending) order
RECURSIVE InOrder(_)
InOrder(S) ==
    IF S = {} THEN <<>>
    ELSE LET m == CHOOSE x \in S : \A y \in S : x <= y
         IN  <<m>> \o InOrder(S \ {m})

(***************************************************************************)
(* The outcome of one call: the collection and the store after it, the     *)
(* value returned, the store calls issued, and whether it ended in         *)
(* crate::panic / crate::abort.                                            *)
(***************************************************************************)
Res(c, s, ret, log, panic) == [c |-> c, s |-> s, ret |-> ret, log |-> log, panic |-> panic]

(***************************************************************************)
(* once_cell::unsync::OnceCell<T>                                          *)
(***************************************************************************)
OnceCell_set(cell, x) == IF IsSome(cell) THEN cell ELSE Some(x)

(***************************************************************************)
(* LookupMap<K, V> with K = i32.  m is the instance: its prefix, its       *)
(* value type vt and its cache of EntryAndHash slots.                      *)
(***************************************************************************)
DefaultEntryAndHash == [value |-> None, hash |-> None]

\* the borsh encoding of a key of type kt: one byte for u8, four for i32 / u32
key_serialize(kt, k) == IF kt = "u8" THEN <<ByteAt(k, 0)>> ELSE to_le_bytes(k)

to_key(kt, prefix, k) == prefix \o key_serialize(kt, k)

\* deserialize_element() that takes bytes it cannot decode for the default value
deserialize_element_lenient(vt, bytes) ==
    [panic |-> FALSE,
     value |-> IF CanDeserialize(vt, bytes) THEN try_from_slice(vt, bytes) ELSE UnitValue]

deserialize_element(vt, bytes) ==
    [panic |-> ~CanDeserialize(vt, bytes),
     value |-> IF CanDeserialize(vt, bytes) THEN try_from_slice(vt, bytes) ELSE UnitValue]

load_element(kt, prefix, k, vt, s) ==
    LET key == to_key(kt, prefix, k)
        storage_bytes == storage_read(s, key)
        de == deserialize_element(vt, Unwrap(storage_bytes))
    IN  [key |-> key,
         log |-> <<ReadOp(key)>>,
         panic |-> IsSome(storage_bytes) /\ de.panic,
         value |-> IF IsSome(storage_bytes) /\ ~de.panic THEN Some(de.value) ELSE None]

\* get_or_init() that loads the element again when the slot is already loaded
LookupMap_get_or_init_reloading(m, s, k) ==
    LET cache == StableMap_get(m.cache, k, DefaultEntryAndHash)
        ld == load_element(m.kt, m.prefix, k, m.vt, s)
    IN  IF IsSome(cache[k].value)
        THEN Res([m EXCEPT !.cache = cache], s, None, ld.log, FALSE)
        ELSE IF ld.panic
             THEN Res([m EXCEPT !.cache = cache], s, None, ld.log, TRUE)
             ELSE Res([m EXCEPT !.cache =
                          Put(cache, k, [value |-> Some(new_cached(ld.value)),
                                         hash |-> OnceCell_set(cache[k].hash, ld.key)])],
                      s, None, ld.log, FALSE)

\* cache.get(k) / cache.get_mut(k) followed by value.get_or_init(load_element ...)
LookupMap_get_or_init(m, s, k) ==
    LET cache == StableMap_get(m.cache, k, DefaultEntryAndHash)
        cached == cache[k]
        ld == load_element(m.kt, m.prefix, k, m.vt, s)
    IN  IF IsSome(cached.value)
        THEN Res([m EXCEPT !.cache = cache], s, None, <<>>, FALSE)
        ELSE IF ld.panic
             THEN Res([m EXCEPT !.cache = cache], s, None, ld.log, TRUE)
             ELSE Res([m EXCEPT !.cache =
                          Put(cache, k, [value |-> Some(new_cached(ld.value)),
                                         hash |-> OnceCell_set(cached.hash, ld.key)])],
                      s, None, ld.log, FALSE)

EntryOf(m, k) == Unwrap(m.cache[k].value)

SetEntry(m, k, entry) == [m EXCEPT !.cache = Put(m.cache, k, [m.cache[k] EXCEPT !.value = Some(entry)])]


\* set() that stages nothing in a slot that was never loaded
LookupMap_set_loaded_only(m, s, key, value) ==
    LET cache == StableMap_get(m.cache, key, DefaultEntryAndHash)
        m1 == [m EXCEPT !.cache = cache]
    IN  IF IsSome(cache[key].value)
        THEN Res(SetEntry(m1, key, value_mut(Unwrap(cache[key].value), value)), s, None, <<>>, FALSE)
        ELSE Res(m1, s, None, <<>>, FALSE)

LookupMap_set(m, s, key, value) ==
    LET cache == StableMap_get(m.cache, key, DefaultEntryAndHash)
        entry == cache[key]
        m1 == [m EXCEPT !.cache = cache]
    IN  IF IsSome(entry.value)
        THEN Res(SetEntry(m1, key, value_mut(Unwrap(entry.value), value)), s, None, <<>>, FALSE)
        ELSE Res(SetEntry(m1, key, new_modified(value)), s, None, <<>>, FALSE)

\* get() that asks the store each time and hands out what it holds now
LookupMap_get_rereading(m, s, k) ==
    LET r == LookupMap_get_or_init(m, s, k)
        ld == load_element(m.kt, m.prefix, k, m.vt, s)
    IN  IF r.panic \/ ld.panic THEN [r EXCEPT !.panic = TRUE]
        ELSE [r EXCEPT !.ret = ld.value, !.log = ld.log]

\* get() that takes the value through the mutable handle
LookupMap_get_by_value_mut(m, s, k) ==
    LET r == LookupMap_get_or_init(m, s, k)
        entry == EntryOf(r.c, k)
    IN  IF r.panic THEN r
        ELSE [r EXCEPT !.ret = entry.value, !.c = SetEntry(r.c, k, value_mut(entry, entry.value))]

LookupMap_get(m, s, k) ==
    LET r == LookupMap_get_or_init(m, s, k)
    IN  IF r.panic THEN r ELSE [r EXCEPT !.ret = EntryOf(r.c, k).value]

\* get_mut() that marks the slot Modified whether or not it holds a value
LookupMap_get_mut_always_dirty(m, s, k, w) ==
    LET r == LookupMap_get_or_init(m, s, k)
        entry == EntryOf(r.c, k)
        held == IF IsSome(w) /\ IsSome(entry.value) THEN w ELSE entry.value
    IN  IF r.panic THEN r
        ELSE [r EXCEPT !.ret = entry.value, !.c = SetEntry(r.c, k, value_mut(entry, held))]

\* get_mut() that marks the slot Modified only when the caller assigns
LookupMap_get_mut_dirty_on_write(m, s, k, w) ==
    LET r == LookupMap_get_or_init(m, s, k)
        entry == EntryOf(r.c, k)
    IN  IF r.panic THEN r
        ELSE IF IsSome(entry.value) /\ IsSome(w)
             THEN [r EXCEPT !.ret = entry.value, !.c = SetEntry(r.c, k, value_mut(entry, w))]
             ELSE [r EXCEPT !.ret = entry.value]

\* w: what the caller assigns through the returned handle (None: nothing)
LookupMap_get_mut(m, s, k, w) ==
    LET r == LookupMap_get_or_init(m, s, k)
        entry == EntryOf(r.c, k)
    IN  IF r.panic THEN r
        ELSE IF IsSome(entry.value)
             THEN [r EXCEPT !.ret = entry.value,
                            !.c = SetEntry(r.c, k, value_mut(entry, IF IsSome(w) THEN w ELSE entry.value))]
             ELSE [r EXCEPT !.ret = None]

LookupMap_get_mut_inner(m, s, k) == LookupMap_get_or_init(m, s, k)


\* insert() that does not load the slot: it knows only what the cache holds
LookupMap_insert_blind(m, s, k, v) ==
    LET cache == StableMap_get(m.cache, k, DefaultEntryAndHash)
        m1 == [m EXCEPT !.cache = cache]
    IN  IF IsSome(cache[k].value)
        THEN Res(SetEntry(m1, k, replace(Unwrap(cache[k].value), Some(v))), s,
                 Unwrap(cache[k].value).value, <<>>, FALSE)
        ELSE Res(SetEntry(m1, k, new_modified(Some(v))), s, None, <<>>, FALSE)

LookupMap_insert(m, s, k, v) ==
    LET r == LookupMap_get_mut_inner(m, s, k)
        entry == EntryOf(r.c, k)
    IN  IF r.panic THEN r
        ELSE [r EXCEPT !.ret = entry.value, !.c = SetEntry(r.c, k, replace(entry, Some(v)))]


\* remove() that also removes the key from the store at once
LookupMap_remove_eager(m, s, k) ==
    LET r == LookupMap_get_mut_inner(m, s, k)
        entry == EntryOf(r.c, k)
        key == to_key(m.kt, m.prefix, k)
    IN  IF r.panic THEN r
        ELSE [r EXCEPT !.ret = entry.value, !.c = SetEntry(r.c, k, replace(entry, None)),
                       !.s = storage_remove(r.s, key), !.log = Append(r.log, RemoveOp(key))]

LookupMap_remove(m, s, k) ==
    LET r == LookupMap_get_mut_inner(m, s, k)
        entry == EntryOf(r.c, k)
    IN  IF r.panic THEN r
        ELSE [r EXCEPT !.ret = entry.value, !.c = SetEntry(r.c, k, replace(entry, None))]

LookupMap_contains_key(m, s, k) ==
    LET r == LookupMap_get(m, s, k)
    IN  IF r.panic THEN r ELSE [r EXCEPT !.ret = Some(IsSome(r.ret))]


\* a flush loop that computes the physical key and does not keep it
LookupMap_flush_slot_unmemoized(m, s, log, k) ==
    LET v == m.cache[k]
        val == Unwrap(v.value)
        key == Unwrap(OnceCell_set(v.hash, to_key(m.kt, m.prefix, k)))
        flushed == [m EXCEPT !.cache =
                       Put(m.cache, k, [value |-> Some(replace_state(val, "Cached")), hash |-> v.hash])]
    IN  IF IsSome(v.value) /\ is_modified(val)
        THEN IF IsSome(val.value)
             THEN Res(flushed, storage_write(s, key, serialize(m.vt, Unwrap(val.value))), None,
                      Append(log, WriteOp(key, serialize(m.vt, Unwrap(val.value)))), FALSE)
             ELSE Res(flushed, storage_remove(s, key), None, Append(log, RemoveOp(key)), FALSE)
        ELSE Res(m, s, None, log, FALSE)

\* a flush loop that writes values and skips tombstones
LookupMap_flush_slot_no_remove(m, s, log, k) ==
    LET v == m.cache[k]
        val == Unwrap(v.value)
        hash == OnceCell_set(v.hash, to_key(m.kt, m.prefix, k))
        key == Unwrap(hash)
        flushed == [m EXCEPT !.cache =
                       Put(m.cache, k, [value |-> Some(replace_state(val, "Cached")), hash |-> hash])]
    IN  IF IsSome(v.value) /\ is_modified(val)
        THEN IF IsSome(val.value)
             THEN Res(flushed, storage_write(s, key, serialize(m.vt, Unwrap(val.value))), None,
                      Append(log, WriteOp(key, serialize(m.vt, Unwrap(val.value)))), FALSE)
             ELSE Res(flushed, s, None, log, FALSE)
        ELSE Res(m, s, None, log, FALSE)

\* one iteration of the loop of flush, on the slot of key k
LookupMap_flush_slot(m, s, log, k) ==
    LET v == m.cache[k]
        val == Unwrap(v.value)
        hash == OnceCell_set(v.hash, to_key(m.kt, m.prefix, k))
        key == Unwrap(hash)
        flushed == [m EXCEPT !.cache =
                       Put(m.cache, k, [value |-> Some(replace_state(val, "Cached")), hash |-> hash])]
    IN  IF IsSome(v.value) /\ is_modified(val)
        THEN IF IsSome(val.value)
             THEN IF CanSerialize(m.vt, Unwrap(val.value))
                  THEN Res(flushed, storage_write(s, key, serialize(m.vt, Unwrap(val.value))), None,
                           Append(log, WriteOp(key, serialize(m.vt, Unwrap(val.value)))), FALSE)
                  ELSE Res([m EXCEPT !.cache = Put(m.cache, k, [v EXCEPT !.hash = hash])],
                           s, None, log, TRUE)
             ELSE Res(flushed, storage_remove(s, key), None, Append(log, RemoveOp(key)), FALSE)
        ELSE Res(m, s, None, log, FALSE)

\* a flush loop that goes on to the next slot after a value failed to serialize
RECURSIVE LookupMap_flush_from_skipping(_, _, _, _)
LookupMap_flush_from_skipping(m, s, log, ks) ==
    IF ks = <<>>
    THEN Res(m, s, None, log, FALSE)
    ELSE LET r == LookupMap_flush_slot(m, s, log, Head(ks))
             rest == LookupMap_flush_from_skipping(r.c, r.s, r.log, Tail(ks))
         IN  [rest EXCEPT !.panic = r.panic \/ rest.panic]

\* the loop of flush over the keys ks; crate::panic ends it
RECURSIVE LookupMap_flush_from(_, _, _, _)
LookupMap_flush_from(m, s, log, ks) ==
    IF ks = <<>>
    THEN Res(m, s, None, log, FALSE)
    ELSE LET r == LookupMap_flush_slot(m, s, log, Head(ks))
         IN  IF r.panic THEN r ELSE LookupMap_flush_from(r.c, r.s, r.log, Tail(ks))

LookupMap_flush(m, s) == LookupMap_flush_from(m, s, <<>>, InOrder(DOMAIN m.cache))

(***************************************************************************)
(* LookupSet<K>: a LookupMap<K, ()>.                                       *)
(***************************************************************************)

\* insert() that reports whether the key was there
LookupSet_insert_inverted(m, s, k) ==
    LET r == LookupMap_insert(m, s, k, UnitValue)
    IN  IF r.panic THEN r ELSE [r EXCEPT !.ret = Some(IsSome(r.ret))]

LookupSet_insert(m, s, k) ==
    LET r == LookupMap_insert(m, s, k, UnitValue)
    IN  IF r.panic THEN r ELSE [r EXCEPT !.ret = Some(~IsSome(r.ret))]


\* remove() that goes through the map's set(k, None), which loads nothing
LookupSet_remove_by_set(m, s, k) ==
    LET old == LookupMap_contains_key(m, s, k)
        r == LookupMap_set(m, s, k, None)
    IN  IF old.panic THEN old ELSE [r EXCEPT !.ret = old.ret, !.log = old.log]

LookupSet_remove(m, s, k) ==
    LET r == LookupMap_remove(m, s, k)
    IN  IF r.panic THEN r ELSE [r EXCEPT !.ret = Some(IsSome(r.ret))]

LookupSet_contains(m, s, k) == LookupMap_contains_key(m, s, k)

LookupSet_flush(m, s) == LookupMap_flush(m, s)

(***************************************************************************)
(* IndexMap<T>: index -> OnceCell<CacheEntry<T>>.                          *)
(***************************************************************************)
\* index_to_lookup_key() that appends the index big endian
index_to_lookup_key_be(prefix, index) ==
    prefix \o <<ByteAt(index, 3), ByteAt(index, 2), ByteAt(index, 1), ByteAt(index, 0)>>

index_to_lookup_key(prefix, index) == prefix \o to_le_bytes(index)

\* cache.get(index) / cache.get_mut(index) followed by get_or_init(read-through)
IndexMap_get_or_init(m, s, index) ==
    LET cache == StableMap_get(m.cache, index, None)
        key == index_to_lookup_key(m.prefix, index)
        storage_bytes == storage_read(s, key)
        de == deserialize_element(m.vt, Unwrap(storage_bytes))
        m1 == [m EXCEPT !.cache = cache]
    IN  IF IsSome(cache[index])
        THEN Res(m1, s, None, <<>>, FALSE)
        ELSE IF IsSome(storage_bytes) /\ de.panic
             THEN Res(m1, s, None, <<ReadOp(key)>>, TRUE)
             ELSE Res([m EXCEPT !.cache =
                          Put(cache, index,
                              Some(new_cached(IF IsSome(storage_bytes) THEN Some(de.value) ELSE None)))],
                      s, None, <<ReadOp(key)>>, FALSE)

IndexMap_get(m, s, index) ==
    LET r == IndexMap_get_or_init(m, s, index)
    IN  IF r.panic THEN r ELSE [r EXCEPT !.ret = Unwrap(r.c.cache[index]).value]

IndexMap_get_mut_inner(m, s, index) == IndexMap_get_or_init(m, s, index)

\* w: what the caller assigns through the returned handle (None: nothing)
IndexMap_get_mut(m, s, index, w) ==
    LET r == IndexMap_get_mut_inner(m, s, index)
        entry == Unwrap(r.c.cache[index])
        held == IF IsSome(w) /\ IsSome(entry.value) THEN w ELSE entry.value
    IN  IF r.panic THEN r
        ELSE [r EXCEPT !.ret = entry.value,
                       !.c = [r.c EXCEPT !.cache = Put(r.c.cache, index, Some(value_mut(entry, held)))]]

IndexMap_set(m, s, index, value) ==
    LET cache == StableMap_get(m.cache, index, None)
        entry == cache[index]
    IN  IF IsSome(entry)
        THEN Res([m EXCEPT !.cache = Put(cache, index, Some(value_mut(Unwrap(entry), value)))],
                 s, None, <<>>, FALSE)
        ELSE Res([m EXCEPT !.cache = Put(cache, index, Some(new_modified(value)))],
                 s, None, <<>>, FALSE)

\* one iteration of the loop of flush, on the slot of index k
IndexMap_flush_slot(m, s, log, k) ==
    LET cell == m.cache[k]
        v == Unwrap(cell)
        key_buf == index_to_lookup_key(m.prefix, k)
        flushed == [m EXCEPT !.cache = Put(m.cache, k, Some(replace_state(v, "Cached")))]
    IN  IF IsSome(cell) /\ is_modified(v)
        THEN IF IsSome(v.value)
             THEN IF CanSerialize(m.vt, Unwrap(v.value))
                  THEN Res(flushed, storage_write(s, key_buf, serialize(m.vt, Unwrap(v.value))), None,
                           Append(log, WriteOp(key_buf, serialize(m.vt, Unwrap(v.value)))), FALSE)
                  ELSE Res(m, s, None, log, TRUE)
             ELSE Res(flushed, storage_remove(s, key_buf), None, Append(log, RemoveOp(key_buf)), FALSE)
        ELSE Res(m, s, None, log, FALSE)

RECURSIVE IndexMap_flush_from(_, _, _, _)
IndexMap_flush_from(m, s, log, ks) ==
    IF ks = <<>>
    THEN Res(m, s, None, log, FALSE)
    ELSE LET r == IndexMap_flush_slot(m, s, log, Head(ks))
         IN  IF r.panic THEN r ELSE IndexMap_flush_from(r.c, r.s, r.log, Tail(ks))

IndexMap_flush(m, s) == IndexMap_flush_from(m, s, <<>>, InOrder(DOMAIN m.cache))

(***************************************************************************)
(* Vector<T>: len and an IndexMap (the fields prefix and cache of m).      *)
(***************************************************************************)
Vector_flush(m, s) == IndexMap_flush(m, s)


\* set() whose bounds check lets index = len through
Vector_set_off_by_one(m, s, index, value) ==
    IF ~u32_ge(m.len, index)
    THEN Res(m, s, None, <<>>, TRUE)
    ELSE IndexMap_set(m, s, index, Some(value))

Vector_set(m, s, index, value) ==
    IF u32_ge(index, m.len)
    THEN Res(m, s, None, <<>>, TRUE)
    ELSE IndexMap_set(m, s, index, Some(value))


\* push() that loads the slot before it overwrites it
Vector_push_reading(m, s, element) ==
    LET last_idx == m.len
        len == checked_add_one(m.len)
        g == IndexMap_get_mut_inner([m EXCEPT !.len = Unwrap(len)], s, last_idx)
        st == IndexMap_set(g.c, g.s, last_idx, Some(element))
    IN  IF ~IsSome(len)
        THEN Res(m, s, None, <<>>, TRUE)
        ELSE IF g.panic THEN g
             ELSE [st EXCEPT !.log = g.log]

Vector_push(m, s, element) ==
    LET last_idx == m.len
        len == checked_add_one(m.len)
    IN  IF ~IsSome(len)
        THEN Res(m, s, None, <<>>, TRUE)
        ELSE Vector_set([m EXCEPT !.len = Unwrap(len)], s, last_idx, element)


\* get() without the bounds check
Vector_get_unchecked(m, s, index) == IndexMap_get(m, s, index)

Vector_get(m, s, index) ==
    IF u32_ge(index, m.len)
    THEN Res(m, s, None, <<>>, FALSE)
    ELSE IndexMap_get(m, s, index)


\* get_mut() without the bounds check
Vector_get_mut_unchecked(m, s, index, w) == IndexMap_get_mut(m, s, index, w)

Vector_get_mut(m, s, index, w) ==
    IF u32_ge(index, m.len)
    THEN Res(m, s, None, <<>>, FALSE)
    ELSE IndexMap_get_mut(m, s, index, w)


\* pop() that shrinks the vector and leaves the slot as it read it
Vector_pop_no_tombstone(m, s) ==
    LET last_idx == m.len - 1
        g == IndexMap_get(m, s, last_idx)
    IN  IF m.len = 0
        THEN Res(m, s, None, <<>>, FALSE)
        ELSE IF g.panic THEN g
             ELSE Res([g.c EXCEPT !.len = g.c.len - 1], g.s, g.ret, g.log, FALSE)

\* pop() that forgets to decrement len
Vector_pop_keeps_len(m, s) ==
    LET last_idx == m.len - 1
        g == IndexMap_get(m, s, last_idx)
        st == IndexMap_set(g.c, g.s, last_idx, None)
    IN  IF m.len = 0
        THEN Res(m, s, None, <<>>, FALSE)
        ELSE IF g.panic THEN g
             ELSE Res(st.c, st.s, g.ret, g.log, FALSE)

Vector_pop(m, s) ==
    LET last_idx == m.len - 1
        g == IndexMap_get(m, s, last_idx)
        st == IndexMap_set(g.c, g.s, last_idx, None)
    IN  IF m.len = 0
        THEN Res(m, s, None, <<>>, FALSE)
        ELSE IF g.panic THEN g
             ELSE Res([st.c EXCEPT !.len = st.c.len - 1], st.s, g.ret, g.log, FALSE)


\* swap_remove() that pops the last element and does not move it into the hole
Vector_swap_remove_no_move(m, s, index) ==
    LET g == IndexMap_get(m, s, index)
        p == Vector_pop(g.c, g.s)
    IN  IF u32_ge(index, m.len)
        THEN Res(m, s, None, <<>>, TRUE)
        ELSE IF g.panic \/ ~IsSome(g.ret) THEN [g EXCEPT !.panic = TRUE]
             ELSE Res(p.c, p.s, g.ret, g.log \o p.log, p.panic)

\* swap_remove() that fetches the element before it checks the index
Vector_swap_remove_read_first(m, s, index) ==
    LET g == IndexMap_get(m, s, index)
        p == Vector_pop(g.c, g.s)
        st == IndexMap_set(p.c, p.s, index, p.ret)
    IN  IF u32_ge(index, m.len)
        THEN Res(g.c, g.s, None, g.log, TRUE)
        ELSE IF m.len - 1 = index
             THEN Vector_pop(m, s)
             ELSE IF g.panic \/ ~IsSome(g.ret) THEN [g EXCEPT !.panic = TRUE]
                  ELSE Res(st.c, st.s, g.ret, g.log \o p.log, p.panic)

Vector_swap_remove(m, s, index) ==
    LET last_idx == m.len - 1
        g == IndexMap_get(m, s, index)
        elem == g.ret
        p == Vector_pop(g.c, g.s)
        last_elem == p.ret
        st == IndexMap_set(p.c, p.s, index, last_elem)
    IN  IF u32_ge(index, m.len)
        THEN Res(m, s, None, <<>>, TRUE)
        ELSE IF last_idx = index
             THEN LET q == Vector_pop(m, s)
                  IN  IF ~q.panic /\ ~IsSome(q.ret) THEN [q EXCEPT !.panic = TRUE] ELSE q
             ELSE IF g.panic THEN g
                  ELSE IF ~IsSome(elem) THEN [g EXCEPT !.panic = TRUE]
                  ELSE IF p.panic THEN [p EXCEPT !.log = g.log \o p.log]
                  ELSE Res(st.c, st.s, elem, g.log \o p.log, FALSE)

\* impl BorshSerialize for Vector: len, then the IndexMap, which is its
\* prefix as a length-prefixed byte string (the cache is skipped)
Vector_serialize(m) == to_le_bytes(m.len) \o to_le_bytes(Len(m.prefix)) \o m.prefix

\* a deserialize that takes the prefix from the bytes and starts at length 0
Vector_deserialize_empty(buf) ==
    [kind |-> "vec", kt |-> "u32", vt |-> "i32",
     prefix |-> SubSeq(buf, 9, 8 + from_le_bytes(SubSeq(buf, 5, 8))),
     len |-> 0,
     cache |-> EmptyCache, status |-> "live"]

\* impl BorshDeserialize for Vector: len and prefix from the bytes, an empty cache
Vector_deserialize(buf) ==
    [kind |-> "vec", kt |-> "u32", vt |-> "i32",
     prefix |-> SubSeq(buf, 9, 8 + from_le_bytes(SubSeq(buf, 5, 8))),
     len |-> from_le_bytes(SubSeq(buf, 1, 4)),
     cache |-> EmptyCache, status |-> "live"]

(***************************************************************************)
(* State.  coll[i] is collection instance i of the running invocation,     *)
(* store the key-value store, which outlives every instance, and lastOp    *)
(* what happened last: "new", "call" for a call that returned, "flush",    *)
(* the name of a call that ended in the fatal error, or how the instance   *)
(* ended.  clean records that the instance was flushed and has since been *)
(* called only through its read accessors.  ref is an ordinary map from    *)
(* keys to optional values, which every call of a LookupMap or LookupSet   *)
(* updates as the same call updates such a map.                            *)
(***************************************************************************)
VARIABLES coll, store, lastOp, clean, ref

vars == <<coll, store, lastOp, clean, ref>>

InstIds == {1, 2}

Kinds == {"map", "set", "vec"}

ValueType(kind) == IF kind = "set" THEN "unit" ELSE "i32"

\* the key type: TestKey(i32) for a LookupMap or LookupSet, the u32 index of a Vector
KeyType(kind) == IF kind = "vec" THEN "u32" ELSE "i32"

\* the prefix the caller gives a collection of each kind: b"m", b"s", b"v"
Prefix(kind) == IF kind = "map" THEN <<109>> ELSE IF kind = "set" THEN <<115>> ELSE <<118>>

\* LookupMap::new, LookupSet::new, Vector::new
NewColl(kind) ==
    [kind |-> kind, kt |-> KeyType(kind), vt |-> ValueType(kind), prefix |-> Prefix(kind),
     len |-> 0, cache |-> EmptyCache, status |-> "live"]

NoColl == [kind |-> "none", kt |-> "i32", vt |-> "i32", prefix |-> <<>>,
           len |-> 0, cache |-> EmptyCache, status |-> "dead"]

(***************************************************************************)
(* What the store may hold before the first invocation.  Under a map's or  *)
(* a set's prefix every key is absent or holds an encoded value, and the   *)
(* first key may also hold bytes that do not decode.  Under a vector's     *)
(* prefix the store is empty, or holds an encoded value at every index, or *)
(* holds bytes that do not decode at every index.                          *)
(***************************************************************************)
InitBytes(kind, k) ==
    {serialize(ValueType(kind), 10)} \cup (IF k = 1 THEN {CorruptBytes} ELSE {})

InitContents(kind) ==
    {f \in UNION {[S -> {serialize(ValueType(kind), 10), CorruptBytes}] : S \in SUBSET Keys} :
        \A k \in DOMAIN f : f[k] \in InitBytes(kind, k)}

InitStores(kind) ==
    IF kind = "vec"
    THEN {[x \in {} |-> <<>>]} \cup
         {[x \in {index_to_lookup_key(Prefix(kind), i) : i \in Indices} |-> b] :
             b \in {serialize(ValueType(kind), 10), CorruptBytes}}
    ELSE {[x \in {to_key(KeyType(kind), Prefix(kind), k) : k \in DOMAIN f} |->
              f[CHOOSE k \in DOMAIN f : to_key(KeyType(kind), Prefix(kind), k) = x]] : f \in InitContents(kind)}

(***************************************************************************)
(* The reference map.  It starts as the store's contents under the prefix: *)
(* a key the store lacks is absent, a key whose bytes decode holds the     *)
(* value, and a key whose bytes do not decode has no entry until a set     *)
(* gives it one.  A Vector has no reference map.                           *)
(***************************************************************************)
RefOfStore(kind, s) ==
    IF kind = "vec" THEN [k \in {} |-> None]
    ELSE [k \in {x \in Keys : LET b == storage_read(s, to_key(KeyType(kind), Prefix(kind), x))
                              IN  IsSome(b) => CanDeserialize(ValueType(kind), Unwrap(b))} |->
             LET b == storage_read(s, to_key(KeyType(kind), Prefix(kind), k))
             IN  IF IsSome(b) THEN Some(try_from_slice(ValueType(kind), Unwrap(b))) ELSE None]

\* map[k] = value
RefPut(r, k, value) == [x \in (DOMAIN r) \cup {k} |-> IF x = k THEN value ELSE r[x]]

\* insert and remove hand back the old value: they change an entry that exists
RefSwap(r, k, value) == IF k \in DOMAIN r THEN RefPut(r, k, value) ELSE r

\* an assignment of w through the handle get_mut returns for a present value
RefAssign(r, k, w) ==
    IF k \in DOMAIN r /\ IsSome(r[k]) /\ IsSome(w) THEN RefPut(r, k, w) ELSE r

Init ==
    \E kind \in Kinds :
        /\ coll = [i \in InstIds |-> IF i = 1 THEN NewColl(kind) ELSE NoColl]
        /\ store \in InitStores(kind)
        /\ lastOp = "new"
        /\ clean = FALSE
        /\ ref = RefOfStore(kind, store)

\* the calls that take &self: get, contains_key, contains
ReadOps == {"get", "contains_key", "contains"}

Live(i, kind) == coll[i].kind = kind /\ coll[i].status = "live"

\* the call named op on instance i, with outcome r
Apply(i, op, r) ==
    /\ coll' = [coll EXCEPT ![i] = [r.c EXCEPT !.status = IF r.panic THEN "panicked" ELSE "live"]]
    /\ store' = r.s
    /\ lastOp' = IF r.panic \/ op = "flush" THEN op ELSE "call"
    /\ clean' = IF r.panic THEN FALSE
                ELSE IF op = "flush" THEN TRUE
                ELSE IF op \in ReadOps THEN clean
                ELSE FALSE

OptValues == {None} \cup {Some(v) : v \in Values}

(***************************************************************************)
(* LookupMap calls                                                         *)
(***************************************************************************)
MapSet(i) ==
    /\ Live(i, "map")
    /\ \E k \in Keys, value \in OptValues : Apply(i, "set", LookupMap_set(coll[i], store, k, value))
                                              /\ ref' = RefPut(ref, k, value)

MapGet(i) ==
    /\ Live(i, "map")
    /\ \E k \in Keys : Apply(i, "get", LookupMap_get(coll[i], store, k))
    /\ UNCHANGED ref

MapGetMut(i) ==
    /\ Live(i, "map")
    /\ \E k \in Keys, w \in OptValues : Apply(i, "get_mut", LookupMap_get_mut(coll[i], store, k, w))
                                          /\ ref' = RefAssign(ref, k, w)

MapInsert(i) ==
    /\ Live(i, "map")
    /\ \E k \in Keys, v \in Values : Apply(i, "insert", LookupMap_insert(coll[i], store, k, v))
                                       /\ ref' = RefSwap(ref, k, Some(v))

MapRemove(i) ==
    /\ Live(i, "map")
    /\ \E k \in Keys : Apply(i, "remove", LookupMap_remove(coll[i], store, k))
                       /\ ref' = RefSwap(ref, k, None)

MapContainsKey(i) ==
    /\ Live(i, "map")
    /\ \E k \in Keys : Apply(i, "contains_key", LookupMap_contains_key(coll[i], store, k))
    /\ UNCHANGED ref

MapFlush(i) ==
    /\ Live(i, "map")
    /\ Apply(i, "flush", LookupMap_flush(coll[i], store))
    /\ UNCHANGED ref

(***************************************************************************)
(* LookupSet calls                                                         *)
(***************************************************************************)
SetInsert(i) ==
    /\ Live(i, "set")
    /\ \E k \in Keys : Apply(i, "insert", LookupSet_insert(coll[i], store, k))
                       /\ ref' = RefSwap(ref, k, Some(UnitValue))

SetRemove(i) ==
    /\ Live(i, "set")
    /\ \E k \in Keys : Apply(i, "remove", LookupSet_remove(coll[i], store, k))
                       /\ ref' = RefSwap(ref, k, None)

SetContains(i) ==
    /\ Live(i, "set")
    /\ \E k \in Keys : Apply(i, "contains", LookupSet_contains(coll[i], store, k))
    /\ UNCHANGED ref

SetFlush(i) ==
    /\ Live(i, "set")
    /\ Apply(i, "flush", LookupSet_flush(coll[i], store))
    /\ UNCHANGED ref

(***************************************************************************)
(* Vector calls.  Index arguments run one past the largest length.         *)
(***************************************************************************)
IndexArgs == 0..MaxLen

VecPush(i) ==
    /\ Live(i, "vec")
    /\ coll[i].len < MaxLen
    /\ \E v \in Values : Apply(i, "push", Vector_push(coll[i], store, v))
    /\ UNCHANGED ref

VecSet(i) ==
    /\ Live(i, "vec")
    /\ \E index \in IndexArgs, v \in Values : Apply(i, "set", Vector_set(coll[i], store, index, v))
    /\ UNCHANGED ref

VecGet(i) ==
    /\ Live(i, "vec")
    /\ \E index \in IndexArgs : Apply(i, "get", Vector_get(coll[i], store, index))
    /\ UNCHANGED ref

VecGetMut(i) ==
    /\ Live(i, "vec")
    /\ \E index \in IndexArgs, w \in OptValues :
          Apply(i, "get_mut", Vector_get_mut(coll[i], store, index, w))
    /\ UNCHANGED ref

VecPop(i) ==
    /\ Live(i, "vec")
    /\ Apply(i, "pop", Vector_pop(coll[i], store))
    /\ UNCHANGED ref

VecSwapRemove(i) ==
    /\ Live(i, "vec")
    /\ \E index \in IndexArgs : Apply(i, "swap_remove", Vector_swap_remove(coll[i], store, index))
    /\ UNCHANGED ref

VecFlush(i) ==
    /\ Live(i, "vec")
    /\ Apply(i, "flush", Vector_flush(coll[i], store))
    /\ UNCHANGED ref

(***************************************************************************)
(* The end of an instance, and the next one over the same store.           *)
(***************************************************************************)
flush(m, s) ==
    IF m.kind = "vec" THEN Vector_flush(m, s)
    ELSE IF m.kind = "set" THEN LookupSet_flush(m, s)
    ELSE LookupMap_flush(m, s)

Gone(m) == [m EXCEPT !.len = 0, !.cache = EmptyCache, !.status = "dead"]

\* a drop that releases the instance without flushing it
drop_no_flush(m, s) == Res(m, s, None, <<>>, FALSE)

\* impl Drop for LookupMap, LookupSet, Vector: self.flush(); a LookupSet then
\* drops its field map, whose own Drop flushes once more
drop(m, s) ==
    LET r == flush(m, s)
        inner == LookupMap_flush(r.c, r.s)
    IN  IF m.kind = "set" THEN [inner EXCEPT !.log = r.log \o inner.log] ELSE r

Ended(i, op, r) ==
    /\ coll' = [coll EXCEPT ![i] = Gone(r.c)]
    /\ store' = r.s
    /\ lastOp' = op
    /\ clean' = FALSE
    /\ ref' = RefOfStore(coll[i].kind, r.s)

Drop(i) ==
    /\ coll[i].kind \in Kinds
    /\ coll[i].status = "live"
    /\ Ended(i, "drop", drop(coll[i], store))

\* crate::panic / crate::abort under cfg(test): std::panic! unwinds and drops the instance
Unwind(i) ==
    /\ coll[i].kind \in Kinds
    /\ coll[i].status = "panicked"
    /\ Ended(i, "unwind", drop(coll[i], store))

\* crate::panic / crate::abort otherwise: the host ends the invocation, nothing is dropped
Trap(i) ==
    /\ coll[i].kind \in Kinds
    /\ coll[i].status = "panicked"
    /\ Ended(i, "trap", Res(coll[i], store, None, <<>>, TRUE))

\* the next invocation builds the collection anew with the same prefix
New(i) ==
    /\ coll[i].kind \in Kinds
    /\ coll[i].status = "dead"
    /\ coll' = [coll EXCEPT ![i] = NewColl(coll[i].kind)]
    /\ lastOp' = "new"
    /\ clean' = FALSE
    /\ UNCHANGED <<store, ref>>

Next ==
    \E i \in InstIds :
        \/ MapSet(i) \/ MapGet(i) \/ MapGetMut(i) \/ MapInsert(i)
        \/ MapRemove(i) \/ MapContainsKey(i) \/ MapFlush(i)
        \/ SetInsert(i) \/ SetRemove(i) \/ SetContains(i) \/ SetFlush(i)
        \/ VecPush(i) \/ VecSet(i) \/ VecGet(i) \/ VecGetMut(i)
        \/ VecPop(i) \/ VecSwapRemove(i) \/ VecFlush(i)
        \/ Drop(i) \/ Unwind(i) \/ Trap(i) \/ New(i)

Spec == Init /\ [][Next]_vars

(***************************************************************************)
(* A Vector restored from its serialized form, with a length within        *)
(* MaxLen of u32::MAX, over a store that is empty or holds an encoded      *)
(* value at each of the topmost indices.                                   *)
(***************************************************************************)
\* the lengths u32::MAX - MaxLen .. u32::MAX
TopLens == {from_le_bytes(<<255 - d, 255, 255, 255>>) : d \in 0..MaxLen}

RestoredBytes == {Vector_serialize([NewColl("vec") EXCEPT !.len = n]) : n \in TopLens}

TopStores ==
    {[x \in {} |-> <<>>],
     [x \in {index_to_lookup_key(Prefix("vec"), n) : n \in TopLens} |-> serialize("i32", 10)]}

InitRestored ==
    /\ coll \in {[i \in InstIds |-> IF i = 1 THEN Vector_deserialize(buf) ELSE NoColl] :
                    buf \in RestoredBytes}
    /\ store \in TopStores
    /\ lastOp = "deserialize"
    /\ clean = FALSE
    /\ ref = RefOfStore("vec", store)

TopPush(i) ==
    /\ Live(i, "vec")
    /\ \E v \in Values : Apply(i, "push", Vector_push(coll[i], store, v))
    /\ UNCHANGED ref

\* pop, while the length stays within MaxLen of u32::MAX
TopPop(i) ==
    /\ Live(i, "vec")
    /\ coll[i].len - 1 \in TopLens
    /\ Apply(i, "pop", Vector_pop(coll[i], store))
    /\ UNCHANGED ref

TopGet(i) ==
    /\ Live(i, "vec")
    /\ \E index \in TopLens : Apply(i, "get", Vector_get(coll[i], store, index))
    /\ UNCHANGED ref

\* the next invocation restores the vector from bytes of its owner
Restore(i) ==
    /\ coll[i].kind = "vec"
    /\ coll[i].status = "dead"
    /\ \E buf \in RestoredBytes : coll' = [coll EXCEPT ![i] = Vector_deserialize(buf)]
    /\ lastOp' = "deserialize"
    /\ clean' = FALSE
    /\ UNCHANGED <<store, ref>>

NextRestored ==
    \E i \in InstIds :
        \/ TopPush(i) \/ TopPop(i) \/ TopGet(i) \/ VecFlush(i)
        \/ Drop(i) \/ Unwind(i) \/ Trap(i) \/ Restore(i)

SpecRestored == InitRestored /\ [][NextRestored]_vars

(***************************************************************************)
(* Two LookupMaps of one invocation over one store, which starts empty.    *)
(* The first is LookupMap<i32, i32> with prefix b"m"; the second is        *)
(* LookupMap<u8, i32> with another prefix: b"n", or b"m" followed by the   *)
(* first three bytes of the i32 key 1.                                     *)
(***************************************************************************)
SharedPrefixes == {<<110>>, <<109>> \o SubSeq(to_le_bytes(1), 1, 3)}

\* the keys the calls name: 1..NumKeys of the first map, and one key fewer,
\* from 0, of the second
SharedKeys(m) == IF m.kt = "u8" THEN 0..(NumKeys - 2) ELSE Keys

\* the value each map's owner inserts
SharedValue(i) == IF i = 1 THEN 10 ELSE -3

InitShared ==
    /\ coll \in {[i \in InstIds |-> IF i = 1 THEN NewColl("map")
                                   ELSE [NewColl("map") EXCEPT !.kt = "u8", !.prefix = p]] :
                    p \in SharedPrefixes}
    /\ store = [x \in {} |-> <<>>]
    /\ lastOp = "new"
    /\ clean = FALSE
    /\ ref = RefOfStore("vec", store)

SharedInsert(i) ==
    /\ Live(i, "map")
    /\ \E k \in SharedKeys(coll[i]) :
          Apply(i, "insert", LookupMap_insert(coll[i], store, k, SharedValue(i)))
    /\ UNCHANGED ref

SharedRemove(i) ==
    /\ Live(i, "map")
    /\ \E k \in SharedKeys(coll[i]) : Apply(i, "remove", LookupMap_remove(coll[i], store, k))
    /\ UNCHANGED ref

SharedGet(i) ==
    /\ Live(i, "map")
    /\ \E k \in SharedKeys(coll[i]) : Apply(i, "get", LookupMap_get(coll[i], store, k))
    /\ UNCHANGED ref

SharedFlush(i) ==
    /\ Live(i, "map")
    /\ Apply(i, "flush", LookupMap_flush(coll[i], store))
    /\ UNCHANGED ref

NextShared ==
    \E i \in InstIds :
        \/ SharedInsert(i) \/ SharedRemove(i) \/ SharedGet(i) \/ SharedFlush(i)

SpecShared == InitShared /\ [][NextShared]_vars

(***************************************************************************)
(* Two LookupMap<i32, i32> of one invocation built with the same prefix    *)
(* b"m" over one store, which starts empty.  The first inserts 10, the     *)
(* second -3; the second is called with all keys but the largest.          *)
(***************************************************************************)
AliasKeys(i) == IF i = 1 THEN Keys ELSE 1..(NumKeys - 1)

InitAliased ==
    /\ coll = [i \in InstIds |-> NewColl("map")]
    /\ store = [x \in {} |-> <<>>]
    /\ lastOp = "new"
    /\ clean = FALSE
    /\ ref = RefOfStore("vec", store)

AliasInsert(i) ==
    /\ Live(i, "map")
    /\ \E k \in AliasKeys(i) :
          Apply(i, "insert", LookupMap_insert(coll[i], store, k, SharedValue(i)))
    /\ UNCHANGED ref

AliasRemove(i) ==
    /\ Live(i, "map")
    /\ \E k \in AliasKeys(i) : Apply(i, "remove", LookupMap_remove(coll[i], store, k))
    /\ UNCHANGED ref

AliasGet(i) ==
    /\ Live(i, "map")
    /\ \E k \in AliasKeys(i) : Apply(i, "get", LookupMap_get(coll[i], store, k))
    /\ UNCHANGED ref

NextAliased ==
    \E i \in InstIds :
        \/ AliasInsert(i) \/ AliasRemove(i) \/ AliasGet(i) \/ SharedFlush(i)

SpecAliased == InitAliased /\ [][NextAliased]_vars

(***************************************************************************)
(* A LookupMap or a Vector whose value type has a BorshSerialize impl that *)
(* fails for one value, over a store that starts empty.  The calls stage   *)
(* values and tombstones without reading; only flush can end in the fatal  *)
(* error, and the next invocation then starts over the store as the flush  *)
(* left it.                                                                *)
(***************************************************************************)
FailKinds == {"map", "vec"}

FailValues == {10, Poison}

FailColl(kind) == [NewColl(kind) EXCEPT !.vt = "fallible"]

InitFailing ==
    /\ coll \in {[i \in InstIds |-> IF i = 1 THEN FailColl(kind) ELSE NoColl] : kind \in FailKinds}
    /\ store = [x \in {} |-> <<>>]
    /\ lastOp = "new"
    /\ clean = FALSE
    /\ ref = RefOfStore("vec", store)

FailMapSet(i) ==
    /\ Live(i, "map")
    /\ \E k \in Keys, value \in {None} \cup {Some(v) : v \in FailValues} :
          Apply(i, "set", LookupMap_set(coll[i], store, k, value))
    /\ UNCHANGED ref

FailVecPush(i) ==
    /\ Live(i, "vec")
    /\ coll[i].len < MaxLen
    /\ \E v \in FailValues : Apply(i, "push", Vector_push(coll[i], store, v))
    /\ UNCHANGED ref

\* set within bounds
FailVecSet(i) ==
    /\ Live(i, "vec")
    /\ \E index \in 0..(coll[i].len - 1), v \in FailValues :
          Apply(i, "set", Vector_set(coll[i], store, index, v))
    /\ UNCHANGED ref

FailFlush(i) ==
    /\ coll[i].kind \in FailKinds
    /\ coll[i].status = "live"
    /\ Apply(i, "flush", flush(coll[i], store))
    /\ UNCHANGED ref

\* the invocation ends in the fatal error; the next one builds the collection anew
FailRestart(i) ==
    /\ coll[i].kind \in FailKinds
    /\ coll[i].status = "panicked"
    /\ coll' = [coll EXCEPT ![i] = FailColl(coll[i].kind)]
    /\ lastOp' = "new"
    /\ clean' = FALSE
    /\ UNCHANGED <<store, ref>>

NextFailing ==
    \E i \in InstIds :
        \/ FailMapSet(i) \/ FailVecPush(i) \/ FailVecSet(i) \/ VecPop(i)
        \/ FailFlush(i) \/ FailRestart(i)

SpecFailing == InitFailing /\ [][NextFailing]_vars

(***************************************************************************)
(* The properties checked.                                                 *)
(***************************************************************************)
\* the OnceCell<CacheEntry> of key k
CellOf(m, k) == IF m.kind = "vec" THEN m.cache[k] ELSE m.cache[k].value

Loaded(m, k) == k \in DOMAIN m.cache /\ IsSome(CellOf(m, k))

Cell(m, k) == Unwrap(CellOf(m, k))

ModifiedKeys(m) == {k \in DOMAIN m.cache : Loaded(m, k) /\ Cell(m, k).state = "Modified"}

PhysKey(m, k) == m.prefix \o key_serialize(m.kt, k)

\* a new instance of the same kind and prefix
Fresh(m) == [NewColl(m.kind) EXCEPT !.prefix = m.prefix, !.kt = m.kt]

Mutations(log) == {j \in 1..Len(log) : log[j].op # "read"}

\* C1: after insert(K, V) and flush() on a LookupMap, get(K) on a fresh
\* instance over the same store and prefix returns V
C1_RoundTrip ==
    \A i \in InstIds : Live(i, "map") =>
        \A k \in Keys, v \in Values :
            LET ins == LookupMap_insert(coll[i], store, k, v)
                fl == LookupMap_flush(ins.c, ins.s)
                got == LookupMap_get(Fresh(coll[i]), fl.s, k)
            IN  ~ins.panic => (~fl.panic /\ ~got.panic /\ got.ret = Some(v))

\* a flush has just written the negative value, which no initial store holds,
\* and a fresh instance reads it back
C1_Witness ==
    /\ lastOp = "flush"
    /\ Live(1, "map")
    /\ \E k \in Keys :
          /\ Loaded(coll[1], k)
          /\ Cell(coll[1], k) = new_cached(Some(-3))
          /\ LookupMap_get(Fresh(coll[1]), store, k).ret = Some(-3)

\* C2: flush() issues exactly one store call for each slot that is Modified
\* when it starts (a write of the serialized value, or a remove when the value
\* is absent), none for any other slot, and leaves no slot Modified
C2_FlushExact ==
    \A i \in InstIds : coll[i].status = "live" =>
        LET m == coll[i]
            r == flush(m, store)
            Want(k) == IF IsSome(Cell(m, k).value)
                       THEN WriteOp(PhysKey(m, k), serialize(m.vt, Unwrap(Cell(m, k).value)))
                       ELSE RemoveOp(PhysKey(m, k))
        IN  /\ ~r.panic
            /\ Len(r.log) = Cardinality(ModifiedKeys(m))
            /\ \A k \in ModifiedKeys(m) :
                  /\ Cardinality({j \in 1..Len(r.log) : r.log[j].key = PhysKey(m, k)}) = 1
                  /\ \E j \in 1..Len(r.log) : r.log[j] = Want(k)
            /\ ModifiedKeys(r.c) = {}

\* before a flush: one slot staged with a value, one staged as a tombstone,
\* both about to be flushed
C2_Witness ==
    \E i \in InstIds :
        /\ coll[i].status = "live"
        /\ \E k1, k2 \in ModifiedKeys(coll[i]) :
              /\ IsSome(Cell(coll[i], k1).value)
              /\ ~IsSome(Cell(coll[i], k2).value)
              /\ Len(flush(coll[i], store).log) = Cardinality(ModifiedKeys(coll[i]))
              /\ ModifiedKeys(flush(coll[i], store).c) = {}

\* C3: a flush() that follows a flush() with only reads in between issues no
\* storage_write and no storage_remove (LookupMap, LookupSet, Vector)
C3_IdempotentFlush ==
    \A i \in InstIds :
        (coll[i].status = "live" /\ clean) => Mutations(flush(coll[i], store).log) = {}

\* flushed, then a read returned: a loaded slot holding a value, and
\* nothing to flush
C3_Witness ==
    \E i \in InstIds :
        /\ coll[i].status = "live"
        /\ clean
        /\ lastOp = "call"
        /\ \E k \in DOMAIN coll[i].cache : Loaded(coll[i], k) /\ IsSome(Cell(coll[i], k).value)
        /\ flush(coll[i], store).log = <<>>

\* C4: after insert(K, V), remove(K) (or set(K, None)) and flush() on a
\* LookupMap the store holds no entry at K's physical key, and get(K) on a
\* fresh instance returns None
C4_Tombstone ==
    \A i \in InstIds : Live(i, "map") =>
        \A k \in Keys, v \in Values :
            LET ins == LookupMap_insert(coll[i], store, k, v)
                rem == LookupMap_remove(ins.c, ins.s, k)
                st == LookupMap_set(ins.c, ins.s, k, None)
                Gone1(r) == LET fl == LookupMap_flush(r.c, r.s)
                                got == LookupMap_get(Fresh(coll[i]), fl.s, k)
                            IN  /\ ~r.panic /\ ~fl.panic /\ ~got.panic
                                /\ PhysKey(coll[i], k) \notin DOMAIN fl.s
                                /\ got.ret = None
            IN  ~ins.panic => (Gone1(rem) /\ Gone1(st))

\* a key the store held was removed and flushed: its slot is a flushed
\* tombstone and the store no longer holds the key
C4_Witness ==
    /\ lastOp = "flush"
    /\ Live(1, "map")
    /\ \E k \in Keys :
          /\ Loaded(coll[1], k)
          /\ Cell(coll[1], k) = new_cached(None)
          /\ PhysKey(coll[1], k) \notin DOMAIN store
          /\ \E k2 \in Keys : PhysKey(coll[1], k2) \in DOMAIN store

\* C5: set(K, Some(V1)) then get(K) on a LookupMap returns V1, and neither
\* call reads the store, whatever the cache and the store hold for K
C5_SetThenGet ==
    \A i \in InstIds : Live(i, "map") =>
        \A k \in Keys, v \in Values :
            LET st == LookupMap_set(coll[i], store, k, Some(v))
                got == LookupMap_get(st.c, st.s, k)
            IN  /\ ~st.panic /\ ~got.panic
                /\ got.ret = Some(v)
                /\ st.log = <<>> /\ got.log = <<>>

\* a value staged over stored bytes that do not decode, in a slot whose
\* key was never built: only set stages without loading
C5_Witness ==
    /\ lastOp = "call"
    /\ Live(1, "map")
    /\ \E k \in Keys :
          /\ storage_read(store, PhysKey(coll[1], k)) = Some(CorruptBytes)
          /\ Loaded(coll[1], k)
          /\ Cell(coll[1], k) = new_modified(Some(-3))
          /\ coll[1].cache[k].hash = None
          /\ LookupMap_get(coll[1], store, k).ret = Some(-3)

\* the store holds what slot k of m stages: its encoded value, or no entry
Persisted(m, k, s) ==
    IF IsSome(Cell(m, k).value)
    THEN storage_read(s, PhysKey(m, k)) = Some(serialize(m.vt, Unwrap(Cell(m, k).value)))
    ELSE storage_read(s, PhysKey(m, k)) = None

\* C6: when a live LookupMap, LookupSet or Vector is dropped, the store
\* becomes what an explicit flush() would have made it: every slot Modified
\* at that moment is written, or removed when its value is absent
C6_DropFlushes ==
    [][\A i \in InstIds :
          (coll[i].status = "live" /\ coll'[i].status = "dead") =>
              /\ store' = flush(coll[i], store).s
              /\ \A k \in ModifiedKeys(coll[i]) : Persisted(coll[i], k, store')]_vars

\* an instance was dropped, and the store holds the negative value, which
\* only a flush of a staged slot puts there
C6_Witness ==
    /\ lastOp = "drop"
    /\ \E i \in InstIds : coll[i].status = "dead" /\ coll[i].kind \in Kinds
    /\ \E x \in DOMAIN store : store[x] = to_le_bytes(-3)

\* C7: set, insert, remove, get, get_mut, contains_key, push, pop and
\* swap_remove issue no storage_write and no storage_remove and leave the
\* store as it is; the store changes only in a flush, explicit or by drop
C7_StagedOnly ==
    /\ [](\A i \in InstIds : coll[i].status = "live" =>
            LET m == coll[i]
                Quiet(r) == r.s = store /\ Mutations(r.log) = {}
            IN  /\ m.kind = "map" =>
                       \A k \in Keys :
                           /\ Quiet(LookupMap_get(m, store, k))
                           /\ Quiet(LookupMap_contains_key(m, store, k))
                           /\ Quiet(LookupMap_remove(m, store, k))
                           /\ \A v \in Values : Quiet(LookupMap_insert(m, store, k, v))
                           /\ \A w \in OptValues :
                                  /\ Quiet(LookupMap_set(m, store, k, w))
                                  /\ Quiet(LookupMap_get_mut(m, store, k, w))
                /\ m.kind = "set" =>
                       \A k \in Keys :
                           /\ Quiet(LookupSet_insert(m, store, k))
                           /\ Quiet(LookupSet_remove(m, store, k))
                           /\ Quiet(LookupSet_contains(m, store, k))
                /\ m.kind = "vec" =>
                       /\ Quiet(Vector_pop(m, store))
                       /\ \A v \in Values : Quiet(Vector_push(m, store, v))
                       /\ \A index \in IndexArgs :
                              /\ Quiet(Vector_get(m, store, index))
                              /\ Quiet(Vector_swap_remove(m, store, index))
                              /\ \A v \in Values : Quiet(Vector_set(m, store, index, v))
                              /\ \A w \in OptValues : Quiet(Vector_get_mut(m, store, index, w)))
    /\ [][store' # store => lastOp' \in {"flush", "drop", "unwind"}]_vars

\* a call has returned with a tombstone staged for a key the store still
\* holds
C7_Witness ==
    /\ lastOp = "call"
    /\ \E i \in InstIds :
          /\ coll[i].status = "live"
          /\ \E k \in ModifiedKeys(coll[i]) :
                /\ ~IsSome(Cell(coll[i], k).value)
                /\ IsSome(storage_read(store, PhysKey(coll[i], k)))

\* C8: on a Vector built by Vector::new, over any store content, get(i)
\* returns a value exactly when i < len()
C8_Presence ==
    \A i \in InstIds : Live(i, "vec") =>
        \A index \in IndexArgs :
            LET g == Vector_get(coll[i], store, index)
            IN  ~g.panic /\ (IsSome(g.ret) <=> index < coll[i].len)

\* a vector that shrank from three elements to two: index 2 is tombstoned
\* in the cache and the store still holds an entry for it
C8_Witness ==
    /\ lastOp = "call"
    /\ Live(1, "vec")
    /\ coll[1].len = 2
    /\ Loaded(coll[1], 2) /\ Cell(coll[1], 2) = new_modified(None)
    /\ IsSome(storage_read(store, PhysKey(coll[1], 2)))
    /\ Vector_get(coll[1], store, 2).ret = None
    /\ IsSome(Vector_get(coll[1], store, 1).ret)

\* the element at index, as get reports it
At(m, s, index) == Vector_get(m, s, index).ret

\* C9: swap_remove(index) with index < len() returns the element at index
\* and shortens the vector by one; if index was not the last position it then
\* holds the element that was last; every other index below the new length
\* holds what it held
C9_SwapRemove ==
    \A i \in InstIds : Live(i, "vec") =>
        \A index \in IndexArgs : index < coll[i].len =>
            LET m == coll[i]
                r == Vector_swap_remove(m, store, index)
            IN  /\ ~r.panic
                /\ IsSome(r.ret)
                /\ r.ret = At(m, store, index)
                /\ r.c.len = m.len - 1
                /\ index # m.len - 1 => At(r.c, r.s, index) = At(m, store, m.len - 1)
                /\ \A j \in IndexArgs :
                       (j < m.len - 1 /\ j # index) => At(r.c, r.s, j) = At(m, store, j)

\* a vector of three elements whose first and last differ, before
\* swap_remove(0) moves the last into the first position
C9_Witness ==
    /\ Live(1, "vec")
    /\ coll[1].len = 3
    /\ At(coll[1], store, 0) = Some(10)
    /\ At(coll[1], store, 2) = Some(-3)
    /\ Vector_swap_remove(coll[1], store, 0).ret = Some(10)
    /\ At(Vector_swap_remove(coll[1], store, 0).c, store, 0) = Some(-3)

\* C10: pop() on an empty Vector returns None and changes nothing; on a
\* Vector of n > 0 elements it returns the element at n-1, makes the length
\* n-1 and leaves indices 0..n-2 as they were; pops return pushed elements
\* in reverse order
C10_Pop ==
    \A i \in InstIds : Live(i, "vec") =>
        LET m == coll[i]
            r == Vector_pop(m, store)
        IN  /\ ~r.panic
            /\ m.len = 0 => (r.ret = None /\ r.c = m /\ r.s = store)
            /\ m.len > 0 =>
                  /\ IsSome(r.ret)
                  /\ r.ret = At(m, store, m.len - 1)
                  /\ r.c.len = m.len - 1
                  /\ \A j \in IndexArgs : j < m.len - 1 => At(r.c, r.s, j) = At(m, store, j)
            /\ \A v1, v2 \in Values :
                  LET p1 == Vector_push(m, store, v1)
                      p2 == Vector_push(p1.c, p1.s, v2)
                      q2 == Vector_pop(p2.c, p2.s)
                      q1 == Vector_pop(q2.c, q2.s)
                  IN  /\ ~p1.panic /\ ~p2.panic /\ ~q2.panic /\ ~q1.panic
                      /\ q2.ret = Some(v2)
                      /\ q1.ret = Some(v1)
                      /\ q1.c.len = m.len

\* a vector emptied by pop: index 0 is tombstoned in the cache, the store
\* still holds an entry for it, and a further pop returns None
C10_Witness ==
    /\ lastOp = "call"
    /\ Live(1, "vec")
    /\ coll[1].len = 0
    /\ Loaded(coll[1], 0) /\ Cell(coll[1], 0) = new_modified(None)
    /\ IsSome(storage_read(store, PhysKey(coll[1], 0)))
    /\ Vector_pop(coll[1], store).ret = None

\* C11: push(v) on a Vector of length n makes the length n+1 and get(n) = v,
\* leaves get(i) as it was for every i < n, and issues no storage_read,
\* whatever the cache and the store hold for index n
C11_Push ==
    \A i \in InstIds : Live(i, "vec") =>
        \A v \in Values :
            LET m == coll[i]
                r == Vector_push(m, store, v)
                g == Vector_get(r.c, r.s, m.len)
            IN  /\ ~r.panic
                /\ r.log = <<>> /\ r.s = store
                /\ r.c.len = m.len + 1
                /\ g.ret = Some(v) /\ g.log = <<>>
                /\ \A j \in IndexArgs : j < m.len => At(r.c, r.s, j) = At(m, store, j)

\* the negative value is staged at the last index, for which the store
\* still holds other bytes, next to a flushed element below it
C11_Witness ==
    /\ lastOp = "call"
    /\ Live(1, "vec")
    /\ coll[1].len = 2
    /\ Cell(coll[1], 1) = new_modified(Some(-3))
    /\ IsSome(storage_read(store, PhysKey(coll[1], 1)))
    /\ storage_read(store, PhysKey(coll[1], 1)) # Some(to_le_bytes(-3))
    /\ Cell(coll[1], 0) = new_cached(Some(10))

\* C12: Vector.set(index, v) with index >= len(), index = len() included,
\* ends in the fatal error and leaves len(), every cache slot and the store
\* as they were
C12_SetOutOfBounds ==
    \A i \in InstIds : Live(i, "vec") =>
        \A index \in IndexArgs, v \in Values : index >= coll[i].len =>
            LET r == Vector_set(coll[i], store, index, v)
            IN  r.panic /\ r.c = coll[i] /\ r.s = store /\ r.log = <<>>

\* a set on a vector of one element has ended in the fatal error; the element
\* is still staged and no slot exists at index 1
C12_Witness ==
    /\ lastOp = "set"
    /\ coll[1].kind = "vec"
    /\ coll[1].status = "panicked"
    /\ coll[1].len = 1
    /\ DOMAIN coll[1].cache = {0}
    /\ Cell(coll[1], 0) = new_modified(Some(-3))

\* C13: swap_remove(index) with index >= len(), on an empty vector too, ends
\* in the fatal error before it reads or changes anything
C13_SwapRemoveOutOfBounds ==
    \A i \in InstIds : Live(i, "vec") =>
        \A index \in IndexArgs : index >= coll[i].len =>
            LET r == Vector_swap_remove(coll[i], store, index)
            IN  r.panic /\ r.c = coll[i] /\ r.s = store /\ r.log = <<>>

\* a swap_remove on an empty vector, over a store that holds bytes at index
\* 0, has ended in the fatal error and built no cache slot
C13_Witness ==
    /\ lastOp = "swap_remove"
    /\ coll[1].kind = "vec"
    /\ coll[1].status = "panicked"
    /\ coll[1].len = 0
    /\ coll[1].cache = EmptyCache
    /\ IsSome(storage_read(store, PhysKey(coll[1], 0)))

\* C14: Vector.get(i) and Vector.get_mut(i) with i >= len() return None
\* without failing, without a storage_read and without creating or changing
\* a cache slot, also when the store holds bytes at index i
C14_OutOfRangeRead ==
    \A i \in InstIds : Live(i, "vec") =>
        \A index \in IndexArgs : index >= coll[i].len =>
            LET g == Vector_get(coll[i], store, index)
            IN  /\ ~g.panic /\ g.ret = None /\ g.log = <<>> /\ g.c = coll[i] /\ g.s = store
                /\ \A w \in OptValues :
                      LET h == Vector_get_mut(coll[i], store, index, w)
                      IN  ~h.panic /\ h.ret = None /\ h.log = <<>> /\ h.c = coll[i] /\ h.s = store

\* a call on an empty vector, over a store that holds bytes that do not
\* decode at every index, has returned and built no cache slot
C14_Witness ==
    /\ lastOp = "call"
    /\ Live(1, "vec")
    /\ coll[1].len = 0
    /\ coll[1].cache = EmptyCache
    /\ \A index \in Indices : storage_read(store, PhysKey(coll[1], index)) = Some(CorruptBytes)

\* C15: push on a Vector whose len() is u32::MAX ends in the fatal error and
\* leaves len() and every cache slot as they were; the length does not wrap
C15_LengthOverflow ==
    \A i \in InstIds : (Live(i, "vec") /\ IsU32Max(coll[i].len)) =>
        \A v \in Values :
            LET r == Vector_push(coll[i], store, v)
            IN  r.panic /\ r.c = coll[i] /\ r.s = store /\ r.log = <<>>

\* a push at length u32::MAX has ended in the fatal error, with a value
\* staged by an earlier push still in the cache
C15_Witness ==
    /\ lastOp = "push"
    /\ coll[1].kind = "vec"
    /\ coll[1].status = "panicked"
    /\ to_le_bytes(coll[1].len) = <<255, 255, 255, 255>>
    /\ \E k \in DOMAIN coll[1].cache : Loaded(coll[1], k) /\ Cell(coll[1], k) = new_modified(Some(-3))

\* C16: Vector.flush() persists the vector's current length: among its store
\* calls is a storage_write of the encoded length, and the store then holds it
C16_FlushPersistsLen ==
    \A i \in InstIds : Live(i, "vec") =>
        LET r == Vector_flush(coll[i], store)
        IN  /\ \E j \in 1..Len(r.log) :
                  r.log[j].op = "write" /\ r.log[j].val = to_le_bytes(coll[i].len)
            /\ \E x \in DOMAIN r.s : r.s[x] = to_le_bytes(coll[i].len)

\* X is a member of the reference set
Member(x) == x \in DOMAIN ref /\ IsSome(ref[x])

\* C17: on a LookupSet, insert(X) returns true exactly when X was not a
\* member just before, remove(X) returns true exactly when it was, and
\* contains(X) is true exactly for members, staged state and store taken
\* together; insert(X) twice returns true then false, and after remove(X)
\* contains(X) is false
C17_SetReturns ==
    \A i \in InstIds : Live(i, "set") =>
        \A x \in DOMAIN ref :
            LET m == coll[i]
                ins == LookupSet_insert(m, store, x)
                again == LookupSet_insert(ins.c, ins.s, x)
                rem == LookupSet_remove(m, store, x)
                con == LookupSet_contains(m, store, x)
            IN  /\ ~ins.panic /\ ~again.panic /\ ~rem.panic /\ ~con.panic
                /\ ins.ret = Some(~Member(x))
                /\ again.ret = Some(FALSE)
                /\ rem.ret = Some(Member(x))
                /\ con.ret = Some(Member(x))
                /\ LookupSet_contains(ins.c, ins.s, x).ret = Some(TRUE)
                /\ LookupSet_contains(rem.c, rem.s, x).ret = Some(FALSE)

\* after a call: one member is only staged and the store lacks it, another
\* key is in the store and staged as removed
C17_Witness ==
    /\ lastOp = "call"
    /\ Live(1, "set")
    /\ \E x, y \in Keys :
          /\ Member(x) /\ storage_read(store, PhysKey(coll[1], x)) = None
          /\ y \in DOMAIN ref /\ ~Member(y) /\ IsSome(storage_read(store, PhysKey(coll[1], y)))
          /\ LookupSet_insert(coll[1], store, x).ret = Some(FALSE)
          /\ LookupSet_insert(coll[1], store, y).ret = Some(TRUE)

\* the same instance seen as the LookupMap<K, ()> it wraps
AsMap(m) == [m EXCEPT !.kind = "map"]

\* two outcomes with the same cache, store and store calls
SameEffect(a, b) == a.c.cache = b.c.cache /\ a.s = b.s /\ a.log = b.log /\ a.panic = b.panic

\* C18: each LookupSet call leaves the cache and issues the store calls of
\* the matching call on a LookupMap<K, ()> with the same prefix: insert(k, ()),
\* remove(k), contains_key(k), flush; after insert(X) and flush the store
\* holds an entry at prefix ++ encoding(X), after remove(X) and flush none
C18_SetIsMap ==
    \A i \in InstIds : Live(i, "set") =>
        LET m == coll[i]
        IN  /\ SameEffect(LookupSet_flush(m, store), LookupMap_flush(AsMap(m), store))
            /\ \A x \in Keys :
                  LET ins == LookupSet_insert(m, store, x)
                      rem == LookupSet_remove(m, store, x)
                  IN  /\ SameEffect(ins, LookupMap_insert(AsMap(m), store, x, UnitValue))
                      /\ SameEffect(rem, LookupMap_remove(AsMap(m), store, x))
                      /\ SameEffect(LookupSet_contains(m, store, x),
                                    LookupMap_contains_key(AsMap(m), store, x))
                      /\ ~ins.panic =>
                            storage_read(LookupSet_flush(ins.c, ins.s).s, m.prefix \o to_le_bytes(x))
                                = Some(serialize("unit", UnitValue))
                      /\ ~rem.panic =>
                            storage_read(LookupSet_flush(rem.c, rem.s).s, m.prefix \o to_le_bytes(x))
                                = None

\* a set has flushed an insert: the store holds the empty encoding at the
\* key of a member it did not hold a decodable entry for at the start
C18_Witness ==
    /\ lastOp = "flush"
    /\ Live(1, "set")
    /\ \E x, y \in Keys :
          /\ x # y
          /\ storage_read(store, PhysKey(coll[1], x)) = Some(<<>>)
          /\ Loaded(coll[1], x) /\ Cell(coll[1], x) = new_cached(Some(UnitValue))
          /\ storage_read(store, PhysKey(coll[1], y)) = None
          /\ Loaded(coll[1], y) /\ Cell(coll[1], y) = new_cached(None)

\* C19: on one LookupMap over a store nobody else writes, get(k),
\* contains_key(k), get_mut(k), insert(k, v) and remove(k) return what the
\* same call returns on the reference map, which started as the store's
\* contents under the prefix: insert and remove return the previous value
C19_RefinesMap ==
    \A i \in InstIds : Live(i, "map") =>
        \A k \in DOMAIN ref :
            LET m == coll[i]
                g == LookupMap_get(m, store, k)
                c == LookupMap_contains_key(m, store, k)
                rem == LookupMap_remove(m, store, k)
            IN  /\ ~g.panic /\ g.ret = ref[k]
                /\ ~c.panic /\ c.ret = Some(IsSome(ref[k]))
                /\ ~rem.panic /\ rem.ret = ref[k]
                /\ \A v \in Values :
                      LET ins == LookupMap_insert(m, store, k, v)
                      IN  ~ins.panic /\ ins.ret = ref[k]
                /\ \A w \in OptValues :
                      LET gm == LookupMap_get_mut(m, store, k, w)
                      IN  ~gm.panic /\ gm.ret = ref[k]

\* after a call: the reference map holds a staged value the store lacks,
\* and has lost a value the store still holds
C19_Witness ==
    /\ lastOp = "call"
    /\ Live(1, "map")
    /\ \E k1, k2 \in Keys :
          /\ k1 \in DOMAIN ref /\ ref[k1] = Some(-3)
          /\ storage_read(store, PhysKey(coll[1], k1)) = None
          /\ k2 \in DOMAIN ref /\ ref[k2] = None
          /\ storage_read(store, PhysKey(coll[1], k2)) = Some(to_le_bytes(10))
          /\ LookupMap_insert(coll[1], store, k1, 10).ret = Some(-3)

\* the calls flush issues for key k
FlushCalls(m, s, k) ==
    LET log == flush(m, s).log
        key == PhysKey(m, k)
    IN  {j \in 1..Len(log) : log[j].key = key}

remove(m, s, k) == IF m.kind = "set" THEN LookupSet_remove(m, s, k) ELSE LookupMap_remove(m, s, k)

\* C20 as stated: remove(K) on a key whose logical value is absent leaves K's
\* slot not Modified, and the next flush issues no call for K
C20_RemoveAbsentNotModified ==
    \A i \in InstIds : (Live(i, "map") \/ Live(i, "set")) =>
        \A k \in DOMAIN ref : ref[k] = None =>
            LET r == remove(coll[i], store, k)
            IN  /\ ~r.panic
                /\ k \notin ModifiedKeys(r.c)
                /\ FlushCalls(r.c, r.s, k) = {}

\* C20, amended: remove(K) on a key whose logical value is absent does not
\* change the state of K's slot: a slot that was not Modified is not
\* Modified afterwards and the next flush issues no call for K; a slot that
\* holds a tombstone not yet flushed keeps it
C20_RemoveAbsentKeepsState ==
    \A i \in InstIds : (Live(i, "map") \/ Live(i, "set")) =>
        \A k \in DOMAIN ref : ref[k] = None =>
            LET m == coll[i]
                r == remove(m, store, k)
            IN  /\ ~r.panic
                /\ (k \in ModifiedKeys(r.c)) <=> (k \in ModifiedKeys(m))
                /\ k \notin ModifiedKeys(m) => FlushCalls(r.c, r.s, k) = {}
                /\ k \in ModifiedKeys(m) => flush(r.c, r.s).log = flush(m, store).log

\* a key neither the store nor the cache ever held, after a call that
\* loaded it: its slot is absent and not Modified, as remove leaves it
C20_Witness ==
    /\ lastOp = "call"
    /\ Live(1, "map")
    /\ \E k \in Keys :
          /\ DOMAIN coll[1].cache = {k}
          /\ Cell(coll[1], k) = new_cached(None)
          /\ coll[1].cache[k].hash = Some(PhysKey(coll[1], k))
          /\ storage_read(store, PhysKey(coll[1], k)) = None
          /\ FlushCalls(coll[1], store, k) = {}

\* the logical keys a call can name, and the slot StableMap builds by default
KeyArgs(m) == IF m.kind = "vec" THEN IndexArgs ELSE Keys

DefaultSlot(m) == IF m.kind = "vec" THEN None ELSE DefaultEntryAndHash

\* C21: StableMap get / get_mut return the map as it is when k has a slot,
\* and otherwise add a default slot for k and leave every other slot as it
\* is; while an instance lives, no call of any kind takes a key out of its
\* cache or empties a slot that was loaded
C21_StableSlots ==
    /\ [](\A i \in InstIds : coll[i].status = "live" =>
            \A k \in KeyArgs(coll[i]) :
                LET cache == coll[i].cache
                    got == StableMap_get(cache, k, DefaultSlot(coll[i]))
                IN  /\ k \in DOMAIN cache => got = cache
                    /\ k \notin DOMAIN cache =>
                           /\ DOMAIN got = (DOMAIN cache) \cup {k}
                           /\ got[k] = DefaultSlot(coll[i])
                           /\ \A x \in DOMAIN cache : got[x] = cache[x])
    /\ [][\A i \in InstIds :
             (coll[i].status = "live" /\ coll'[i].status # "dead") =>
                 \A k \in DOMAIN coll[i].cache :
                     /\ k \in DOMAIN coll'[i].cache
                     /\ Loaded(coll[i], k) => Loaded(coll'[i], k)]_vars

\* a live instance whose cache holds a slot for every key or index in
\* range, one of them read through and another staged: the slots were built
\* by different calls and all of them are still there
C21_Witness ==
    \E i \in InstIds :
        /\ coll[i].status = "live"
        /\ lastOp = "call"
        /\ DOMAIN coll[i].cache = KeyArgs(coll[i]) \ {MaxLen}
        /\ \E k1, k2 \in DOMAIN coll[i].cache :
              /\ Loaded(coll[i], k1) /\ Cell(coll[i], k1).state = "Cached"
              /\ Loaded(coll[i], k2) /\ Cell(coll[i], k2).state = "Modified"

\* C22: two live instances with different prefixes over one store build no
\* physical key in common, for any two logical keys, and a flush of one
\* leaves the store as it was at every physical key of the other
C22_PrefixIsolation ==
    \A i, j \in InstIds :
        (i # j /\ coll[i].status = "live" /\ coll[j].status = "live"
               /\ coll[i].prefix # coll[j].prefix) =>
            /\ \A ki \in SharedKeys(coll[i]), kj \in SharedKeys(coll[j]) :
                   PhysKey(coll[i], ki) # PhysKey(coll[j], kj)
            /\ \A kj \in SharedKeys(coll[j]) :
                   storage_read(flush(coll[i], store).s, PhysKey(coll[j], kj)) =
                       storage_read(store, PhysKey(coll[j], kj))

\* C23: when a call has ended in the fatal error and the invocation
\* terminates, the store is left as it is: as the store changes in flushes
\* only, that is its content at the end of the last completed flush
C23_FatalLosesStaged ==
    [][\A i \in InstIds :
          (coll[i].status = "panicked" /\ coll'[i].status = "dead") => store' = store]_vars

\* every loaded slot of m is in the store s as it is in the cache
Agrees(m, s) == \A k \in DOMAIN m.cache : Loaded(m, k) => Persisted(m, k, s)

\* C24: when flush() returns, the store holds for every loaded slot the
\* serialization of its current value, or no entry when the value is absent;
\* so insert, flush, insert, flush on a LookupMap leaves the second value in
\* the store, and push, flush, set, flush on a Vector leaves the set value
C24_StoreAgrees ==
    \A i \in InstIds : coll[i].status = "live" =>
        LET m == coll[i]
            fl == flush(m, store)
        IN  /\ ~fl.panic /\ Agrees(fl.c, fl.s)
            /\ m.kind = "map" =>
                   \A k \in Keys, v1, v2 \in Values :
                       LET i1 == LookupMap_insert(m, store, k, v1)
                           f1 == LookupMap_flush(i1.c, i1.s)
                           i2 == LookupMap_insert(f1.c, f1.s, k, v2)
                           f2 == LookupMap_flush(i2.c, i2.s)
                       IN  (v1 # v2 /\ ~i1.panic) =>
                               /\ ~i2.panic
                               /\ storage_read(f2.s, PhysKey(m, k)) = Some(serialize(m.vt, v2))
            /\ m.kind = "vec" =>
                   \A v1, v2 \in Values :
                       LET s1 == Vector_push(m, store, v1)
                           f1 == Vector_flush(s1.c, s1.s)
                           s2 == Vector_set(f1.c, f1.s, m.len, v2)
                           f2 == Vector_flush(s2.c, s2.s)
                       IN  v1 # v2 =>
                               /\ ~s1.panic /\ ~s2.panic
                               /\ storage_read(f2.s, PhysKey(m, m.len)) = Some(serialize(m.vt, v2))

\* a flush has just returned: the store holds the negative value, which no
\* initial store holds, for one loaded slot, and nothing for another
C24_Witness ==
    /\ lastOp = "flush"
    /\ \E i \in InstIds :
          /\ coll[i].status = "live"
          /\ Agrees(coll[i], store)
          /\ \E k1, k2 \in DOMAIN coll[i].cache :
                /\ Loaded(coll[i], k1) /\ Cell(coll[i], k1) = new_cached(Some(-3))
                /\ storage_read(store, PhysKey(coll[i], k1)) = Some(to_le_bytes(-3))
                /\ Loaded(coll[i], k2) /\ Cell(coll[i], k2) = new_cached(None)
                /\ storage_read(store, PhysKey(coll[i], k2)) = None

\* C25: storage_write(key, value) returns true exactly when the store held
\* a value at key before the write, and storage_remove(key) returns true
\* exactly when a value existed; checked at every physical key of a live
\* collection, in every store reached
C25_StoreReturns ==
    \A i \in InstIds : coll[i].status = "live" =>
        \A k \in KeyArgs(coll[i]) :
            LET key == PhysKey(coll[i], k)
            IN  /\ storage_write_returns(store, key) = IsSome(storage_read(store, key))
                /\ storage_remove_returns(store, key) = IsSome(storage_read(store, key))

\* the state of slot k of m; a slot not yet built or not yet loaded is Uninitialized
SlotState(m, k) == IF Loaded(m, k) THEN Cell(m, k).state ELSE "Uninitialized"

\* the elementary steps of the calls of a LookupMap or an IndexMap from the
\* state they are in, each as the pair of states of the slot it works on:
\* a read-through, a write through a loaded entry, a set, a flush.  SetSteps
\* are the pairs a set may make.
SlotSteps(m, s, SetSteps) ==
    LET U == "Uninitialized"
        Step(a, b, k) == <<SlotState(a, k), SlotState(b, k)>>
        Same(a, b, k) == SlotState(a, k) = SlotState(b, k)
        Loads == {<<U, "Cached">>, <<"Cached", "Cached">>, <<"Modified", "Modified">>}
        Writes == {<<"Cached", "Modified">>, <<"Modified", "Modified">>}
        Keeps == {<<"Cached", "Cached">>}
        Flushes == {<<U, U>>, <<"Cached", "Cached">>, <<"Modified", "Cached">>}
        Others(a, b, k) == \A x \in KeyArgs(m) \ {k} : Same(a, b, x)
        fl == flush(m, s)
    IN  /\ ~fl.panic /\ \A k \in KeyArgs(m) : Step(m, fl.c, k) \in Flushes
        /\ m.kind \in {"map", "set"} =>
               \A k \in Keys :
                   LET inner == LookupMap_get_mut_inner(m, s, k)
                       got == LookupMap_get(m, s, k)
                       ins == LookupMap_insert(m, s, k, 10)
                       rem == LookupMap_remove(m, s, k)
                   IN  /\ \A w \in OptValues :
                              LET st == LookupMap_set(m, s, k, w)
                                  gm == LookupMap_get_mut(m, s, k, w)
                              IN  /\ Step(m, st.c, k) \in SetSteps /\ Others(m, st.c, k)
                                  /\ ~inner.panic =>
                                         Step(inner.c, gm.c, k) \in Writes \cup Keeps
                       /\ IF inner.panic
                          THEN Same(m, inner.c, k) /\ Same(m, got.c, k)
                          ELSE /\ Step(m, inner.c, k) \in Loads /\ Others(m, inner.c, k)
                               /\ Step(m, got.c, k) \in Loads /\ Others(m, got.c, k)
                               /\ Step(inner.c, ins.c, k) \in Writes /\ Others(m, ins.c, k)
                               /\ Step(inner.c, rem.c, k) \in Writes \cup Keeps
                               /\ Others(m, rem.c, k)
        /\ m.kind = "vec" =>
               \A k \in IndexArgs :
                   LET inner == IndexMap_get_mut_inner(m, s, k)
                       got == IndexMap_get(m, s, k)
                   IN  /\ \A w \in OptValues :
                              LET st == IndexMap_set(m, s, k, w)
                                  gm == IndexMap_get_mut(m, s, k, w)
                              IN  /\ Step(m, st.c, k) \in SetSteps /\ Others(m, st.c, k)
                                  /\ ~inner.panic =>
                                         Step(inner.c, gm.c, k) \in Writes /\ Others(m, gm.c, k)
                       /\ IF inner.panic
                          THEN Same(m, inner.c, k) /\ Same(m, got.c, k)
                          ELSE /\ Step(m, inner.c, k) \in Loads /\ Others(m, inner.c, k)
                               /\ Step(m, got.c, k) \in Loads /\ Others(m, got.c, k)

\* C26 as claimed: a slot goes from Uninitialized to Cached by a first
\* read-through, from Cached to Modified and from Modified to Modified by a
\* write, from Modified to Cached and from Cached to Cached by a flush; no
\* step takes a slot from Uninitialized to Modified or back to Uninitialized
C26_SlotStateMachine ==
    \A i \in InstIds : coll[i].status = "live" =>
        SlotSteps(coll[i], store, {<<"Cached", "Modified">>, <<"Modified", "Modified">>})

\* C26: the steps of a slot are those claimed and one more: set on a slot
\* that was never loaded takes it from Uninitialized to Modified with no
\* read-through; no step takes a slot back to Uninitialized, and only a
\* flush takes a slot from Modified to Cached
C26_SlotTransitions ==
    /\ [](\A i \in InstIds : coll[i].status = "live" =>
            /\ SlotSteps(coll[i], store, {<<"Uninitialized", "Modified">>,
                                          <<"Cached", "Modified">>, <<"Modified", "Modified">>})
            /\ \A k \in KeyArgs(coll[i]) :
                   SlotState(coll[i], k) = "Uninitialized" =>
                       /\ coll[i].kind = "map" =>
                              SlotState(LookupMap_set(coll[i], store, k, Some(10)).c, k) = "Modified"
                       /\ coll[i].kind = "vec" =>
                              SlotState(IndexMap_set(coll[i], store, k, Some(10)).c, k) = "Modified")
    /\ [][\A i \in InstIds :
             (coll[i].status = "live" /\ coll'[i].status # "dead") =>
                 \A k \in KeyArgs(coll[i]) :
                     /\ SlotState(coll'[i], k) = "Uninitialized" =>
                            SlotState(coll[i], k) = "Uninitialized"
                     /\ (SlotState(coll[i], k) = "Modified" /\ SlotState(coll'[i], k) = "Cached") =>
                            lastOp' = "flush"]_vars

\* a call has returned with one slot Modified over stored bytes that do not
\* decode, so it was staged by set and never read through, next to a slot
\* that was read through and is Cached
C26_Witness ==
    /\ lastOp = "call"
    /\ \E i \in InstIds :
          /\ coll[i].status = "live"
          /\ \E k1, k2 \in DOMAIN coll[i].cache :
                /\ SlotState(coll[i], k1) = "Modified"
                /\ storage_read(store, PhysKey(coll[i], k1)) = Some(CorruptBytes)
                /\ SlotState(coll[i], k2) = "Cached"

\* set(k, value) of a LookupMap, and of the IndexMap of a Vector
set(m, s, k, value) ==
    IF m.kind = "vec" THEN IndexMap_set(m, s, k, value) ELSE LookupMap_set(m, s, k, value)

\* the value of k is absent and its slot is not Modified: the slot is not
\* loaded and the store has no entry for k, or it is Cached and holds None
AbsentClean(m, s, k) ==
    IF Loaded(m, k)
    THEN Cell(m, k) = new_cached(None)
    ELSE storage_read(s, PhysKey(m, k)) = None

\* C27 as claimed: set(K, None) on a key whose value is absent, its slot not
\* loaded or Cached, leaves the slot not Modified, and the next flush issues
\* no call for K
C27_SetAbsentNotModified ==
    \A i \in InstIds : (Live(i, "map") \/ Live(i, "vec")) =>
        \A k \in KeyArgs(coll[i]) : AbsentClean(coll[i], store, k) =>
            LET st == set(coll[i], store, k, None)
            IN  /\ k \notin ModifiedKeys(st.c)
                /\ FlushCalls(st.c, st.s, k) = {}

\* C27: set(K, None) on a key whose value is absent, its slot not loaded or
\* Cached, reads nothing and leaves the slot Modified and absent; the next
\* flush issues one storage_remove for K, which leaves the store without K
C27_SetAbsentStagesRemove ==
    \A i \in InstIds : (Live(i, "map") \/ Live(i, "vec")) =>
        \A k \in KeyArgs(coll[i]) : AbsentClean(coll[i], store, k) =>
            LET st == set(coll[i], store, k, None)
                fl == flush(st.c, st.s)
            IN  /\ ~st.panic /\ st.log = <<>> /\ st.s = store
                /\ Loaded(st.c, k) /\ Cell(st.c, k) = new_modified(None)
                /\ Cardinality(FlushCalls(st.c, st.s, k)) = 1
                /\ \E j \in 1..Len(fl.log) : fl.log[j] = RemoveOp(PhysKey(coll[i], k))
                /\ storage_read(fl.s, PhysKey(coll[i], k)) = None

\* a call has left a tombstone for a key the store does not hold, in a slot
\* of a LookupMap whose physical key was never built: it was staged by set
\* and by nothing that loads
C27_Witness ==
    /\ lastOp = "call"
    /\ Live(1, "map")
    /\ \E k \in Keys :
          /\ Loaded(coll[1], k)
          /\ Cell(coll[1], k) = new_modified(None)
          /\ coll[1].cache[k].hash = None
          /\ storage_read(store, PhysKey(coll[1], k)) = None
          /\ Cardinality(FlushCalls(coll[1], store, k)) = 1

\* the storage_read calls of a log
Reads(log) == {j \in 1..Len(log) : log[j].op = "read"}

\* the call r, on key k of m, read the store as a first touch of k does: not
\* at all when the slot was loaded, and otherwise once, at k's physical key;
\* and it left the slot loaded unless it ended in the fatal error
ReadThrough(m, k, r) ==
    /\ r.log = IF Loaded(m, k) THEN <<>> ELSE <<ReadOp(PhysKey(m, k))>>
    /\ ~r.panic => Loaded(r.c, k)

\* C28: get, get_mut, insert, remove (and contains_key) read the store once
\* when they touch a slot that is not loaded and not at all when it is; set
\* never reads and leaves the slot loaded; flush never reads and leaves every
\* loaded slot loaded; and no call unloads a slot while the instance lives, so
\* each logical key is read at most once in the life of an instance
C28_MemoizedRead ==
    /\ [](\A i \in InstIds : coll[i].status = "live" =>
            LET m == coll[i]
                fl == flush(m, store)
            IN  /\ Reads(fl.log) = {}
                /\ \A k \in DOMAIN m.cache : Loaded(m, k) => Loaded(fl.c, k)
                /\ \A k \in KeyArgs(m), w \in OptValues :
                       /\ m.kind \in {"map", "vec"} =>
                              LET st == set(m, store, k, w)
                              IN  st.log = <<>> /\ Loaded(st.c, k)
                       /\ m.kind = "map" =>
                              /\ ReadThrough(m, k, LookupMap_get(m, store, k))
                              /\ ReadThrough(m, k, LookupMap_contains_key(m, store, k))
                              /\ ReadThrough(m, k, LookupMap_get_mut(m, store, k, w))
                              /\ ReadThrough(m, k, LookupMap_insert(m, store, k, 10))
                              /\ ReadThrough(m, k, LookupMap_remove(m, store, k))
                       /\ m.kind = "set" =>
                              /\ ReadThrough(m, k, LookupSet_contains(m, store, k))
                              /\ ReadThrough(m, k, LookupSet_insert(m, store, k))
                              /\ ReadThrough(m, k, LookupSet_remove(m, store, k))
                       /\ m.kind = "vec" =>
                              /\ ReadThrough(m, k, IndexMap_get(m, store, k))
                              /\ ReadThrough(m, k, IndexMap_get_mut(m, store, k, w)))
    /\ [][\A i \in InstIds :
             (coll[i].status = "live" /\ coll'[i].status = "live") =>
                 \A k \in DOMAIN coll[i].cache : Loaded(coll[i], k) => Loaded(coll'[i], k)]_vars

\* flushed, then read: one slot holds the flushed negative value and a get
\* of it reads nothing, another key was never touched and a get of it reads
\* the store once
C28_Witness ==
    /\ lastOp = "call"
    /\ clean
    /\ Live(1, "map")
    /\ \E k1, k2 \in Keys :
          /\ Loaded(coll[1], k1) /\ Cell(coll[1], k1) = new_cached(Some(-3))
          /\ LookupMap_get(coll[1], store, k1).log = <<>>
          /\ ~Loaded(coll[1], k2)
          /\ LookupMap_get(coll[1], store, k2).log = <<ReadOp(PhysKey(coll[1], k2))>>

\* the read r on key k of m left every loaded slot as it was, and loaded at
\* most the slot of k, as Cached
ReadOnly(m, k, r) ==
    /\ Mutations(r.log) = {}
    /\ \A x \in DOMAIN m.cache : Loaded(m, x) => (Loaded(r.c, x) /\ Cell(r.c, x) = Cell(m, x))
    /\ \A x \in DOMAIN r.c.cache :
           (Loaded(r.c, x) /\ ~Loaded(m, x)) => (x = k /\ Cell(r.c, x).state = "Cached")

\* the read accessor of each kind
read(m, s, k) ==
    IF m.kind = "vec" THEN Vector_get(m, s, k)
    ELSE IF m.kind = "set" THEN LookupSet_contains(m, s, k)
    ELSE LookupMap_get(m, s, k)

\* C29: LookupMap get and contains_key, LookupSet contains and Vector get
\* leave the value and the state of every loaded slot as they were and load
\* a slot only as Cached; a new instance that is only read, at any two keys,
\* and then flushed issues no storage_write and no storage_remove
C29_ReadsStayClean ==
    \A i \in InstIds : coll[i].status = "live" =>
        LET m == coll[i]
        IN  \A k \in KeyArgs(m) :
                /\ ReadOnly(m, k, read(m, store, k))
                /\ m.kind = "map" => ReadOnly(m, k, LookupMap_contains_key(m, store, k))
                /\ \A k2 \in KeyArgs(m) :
                       LET r1 == read(Fresh(m), store, k)
                           r2 == read(r1.c, r1.s, k2)
                           fl == flush(r2.c, r2.s)
                       IN  (~r1.panic /\ ~r2.panic) =>
                               /\ ModifiedKeys(r2.c) = {}
                               /\ Mutations(fl.log) = {} /\ fl.s = store

\* a call has returned and the instance has not been flushed: two slots are
\* loaded, one holding a value and one absent, none is Modified and a flush
\* would issue nothing, as a session of reads leaves it
C29_Witness ==
    /\ lastOp = "call"
    /\ ~clean
    /\ \E i \in InstIds :
          /\ coll[i].status = "live"
          /\ ModifiedKeys(coll[i]) = {}
          /\ \E k1, k2 \in DOMAIN coll[i].cache :
                /\ Loaded(coll[i], k1) /\ IsSome(Cell(coll[i], k1).value)
                /\ Loaded(coll[i], k2) /\ ~IsSome(Cell(coll[i], k2).value)
          /\ flush(coll[i], store).log = <<>>

\* get_mut(k) of a LookupMap and of a Vector; w is what the caller assigns
\* through the handle, None when the caller assigns nothing
get_mut(m, s, k, w) ==
    IF m.kind = "vec" THEN Vector_get_mut(m, s, k, w) ELSE LookupMap_get_mut(m, s, k, w)

\* C30: when get_mut(k) on a LookupMap or a Vector returns a present handle,
\* k's slot is Modified, whether or not the caller assigns through the handle,
\* and the next flush issues one call for k: a storage_write of the value the
\* slot then holds, which the store holds afterwards
C30_GetMutMarksDirty ==
    \A i \in InstIds : (Live(i, "map") \/ Live(i, "vec")) =>
        \A k \in KeyArgs(coll[i]), w \in OptValues :
            LET m == coll[i]
                gm == get_mut(m, store, k, w)
                fl == flush(gm.c, gm.s)
                held == IF IsSome(w) THEN w ELSE gm.ret
                wr == WriteOp(PhysKey(m, k), serialize(m.vt, Unwrap(held)))
            IN  (~gm.panic /\ IsSome(gm.ret)) =>
                    /\ Loaded(gm.c, k) /\ Cell(gm.c, k) = new_modified(held)
                    /\ Cardinality({j \in 1..Len(fl.log) : fl.log[j].key = wr.key}) = 1
                    /\ \E j \in 1..Len(fl.log) : fl.log[j] = wr
                    /\ storage_read(fl.s, PhysKey(m, k)) = Some(wr.val)

\* a call has returned and a slot is Modified although it holds the very
\* value the store holds, as after a get_mut whose handle was not assigned
\* through: the next flush writes it again
C30_Witness ==
    /\ lastOp = "call"
    /\ \E i \in InstIds :
          /\ Live(i, "map") \/ Live(i, "vec")
          /\ \E k \in ModifiedKeys(coll[i]) :
                /\ Cell(coll[i], k) = new_modified(Some(10))
                /\ storage_read(store, PhysKey(coll[i], k)) = Some(serialize(coll[i].vt, 10))
                /\ get_mut(coll[i], store, k, None).ret = Some(10)
                /\ Cardinality(FlushCalls(coll[i], store, k)) = 1

\* the logical key (the index, or the key of type K) whose physical key is `key`
LogicalKey(m, key) == CHOOSE k \in KeyArgs(m) : PhysKey(m, k) = key

\* the store calls of log come in strictly ascending order of logical key
Ascending(m, log) ==
    \A a, b \in 1..Len(log) :
        a < b => LogicalKey(m, log[a].key) < LogicalKey(m, log[b].key)

\* C31: within one flush the store calls are issued in strictly ascending
\* order of logical key, whatever the order in which the keys were touched:
\* the flush of every reachable state is ascending, and staging two keys in
\* either order (set, then set) gives the same sequence of store calls, with
\* the smaller key's call before the larger key's
C31_FlushOrder ==
    [](\A i \in InstIds : coll[i].status = "live" =>
          LET m == coll[i]
          IN  /\ Ascending(m, flush(m, store).log)
              /\ m.kind \in {"map", "vec"} =>
                     \A k1, k2 \in KeyArgs(m) : k1 < k2 =>
                         LET up == set(set(m, store, k1, Some(10)).c, store, k2, None).c
                             down == set(set(m, store, k2, None).c, store, k1, Some(10)).c
                             fu == flush(up, store).log
                             fd == flush(down, store).log
                         IN  /\ fu = fd
                             /\ Ascending(m, fu)
                             /\ \E a, b \in 1..Len(fu) :
                                    /\ a < b
                                    /\ fu[a] = WriteOp(PhysKey(m, k1), serialize(m.vt, 10))
                                    /\ fu[b] = RemoveOp(PhysKey(m, k2)))

\* the larger key was staged as a tombstone while the smaller key was clean,
\* the smaller key was staged afterwards, and the flush about to run issues
\* the smaller key's write first
C31_Witness ==
    /\ lastOp = "call"
    /\ \E i \in InstIds :
          /\ Live(i, "map") \/ Live(i, "vec")
          /\ \E k1, k2 \in ModifiedKeys(coll[i]) :
                /\ k1 < k2
                /\ Cell(coll[i], k1) = new_modified(Some(-3))
                /\ Cell(coll[i], k2) = new_modified(None)
                /\ storage_read(store, PhysKey(coll[i], k1)) = Some(to_le_bytes(10))
                /\ LET log == flush(coll[i], store).log
                   IN  /\ Len(log) >= 2
                       /\ log[1] = WriteOp(PhysKey(coll[i], k1), to_le_bytes(-3))
                       /\ log[2] = RemoveOp(PhysKey(coll[i], k2))

\* C32: a pop() or swap_remove() that shrinks a Vector from length n to n - 1
\* leaves index n - 1 staged as a tombstone: the flush that follows removes
\* its physical key from the store, a push before that flush makes the flush
\* write the pushed value there instead, and the popped value is not handed
\* out again: get(n - 1) is absent without a read, a pop after a push returns
\* the pushed value, and an instance built anew over the flushed store, even
\* with the old length, finds nothing at n - 1
C32_PopTombstones ==
    \A i \in InstIds : (Live(i, "vec") /\ coll[i].len > 0) =>
        LET m == coll[i]
            last == m.len - 1
            key == PhysKey(m, last)
            After(r) ==
                LET fl == Vector_flush(r.c, r.s)
                    got == Vector_get(r.c, r.s, last)
                    stale == Vector_get([Fresh(m) EXCEPT !.len = m.len], fl.s, last)
                IN  /\ r.c.len = last
                    /\ Loaded(r.c, last) /\ Cell(r.c, last) = new_modified(None)
                    /\ storage_read(fl.s, key) = None
                    /\ ~got.panic /\ got.ret = None /\ got.log = <<>>
                    /\ ~stale.panic /\ stale.ret = None
            Pushed(r) ==
                \A v \in Values :
                    LET ps == Vector_push(r.c, r.s, v)
                        again == Vector_pop(ps.c, ps.s)
                    IN  /\ ~ps.panic /\ ps.c.len = m.len
                        /\ storage_read(Vector_flush(ps.c, ps.s).s, key) = Some(serialize(m.vt, v))
                        /\ Vector_get(ps.c, ps.s, last).ret = Some(v)
                        /\ ~again.panic /\ again.ret = Some(v)
            p == Vector_pop(m, store)
        IN  /\ ~p.panic => (After(p) /\ Pushed(p))
            /\ \A index \in IndexArgs :
                   LET sr == Vector_swap_remove(m, store, index)
                   IN  ~sr.panic => (After(sr) /\ (index = 0 => Pushed(sr)))

\* after push, push, pop and a flush over a store that held a value at every
\* index: the popped index is gone from the store, the index above it, which
\* no call has touched, still holds its value
C32_Witness ==
    /\ lastOp = "flush"
    /\ Live(1, "vec")
    /\ coll[1].len > 0
    /\ Loaded(coll[1], coll[1].len)
    /\ Cell(coll[1], coll[1].len) = new_cached(None)
    /\ storage_read(store, PhysKey(coll[1], coll[1].len)) = None
    /\ storage_read(store, PhysKey(coll[1], coll[1].len + 1)) = Some(to_le_bytes(10))
    /\ storage_read(store, PhysKey(coll[1], coll[1].len - 1)) = Some(to_le_bytes(-3))

\* indices and keys whose encodings differ in each of the four bytes
WideKeys == {0, 1, 255, 256, 65535, 65536, 16777216, -1, -256}

\* the call that reads key k through to the store, on an instance with an empty cache
read_through(m, s, k) ==
    IF m.kind = "vec" THEN IndexMap_get(Fresh(m), s, k)
    ELSE IF m.kind = "set" THEN LookupSet_contains(Fresh(m), s, k)
    ELSE LookupMap_get(Fresh(m), s, k)

\* key k staged on an instance with an empty cache
staged(m, s, k) ==
    IF m.kind = "vec" THEN IndexMap_set(Fresh(m), s, k, Some(10))
    ELSE LookupMap_set(Fresh(m), s, k, Some(IF m.kind = "set" THEN UnitValue ELSE 10))

\* C33: the physical key of index i of an IndexMap / Vector is the prefix
\* followed by the four little-endian bytes of i, and that of key K of a
\* LookupMap the prefix followed by the serialization of K; the read-through
\* and the flush of a key use that same physical key; and under one prefix
\* distinct indices, and keys with distinct serializations, have distinct
\* physical keys
C33_PhysicalKey ==
    \A i \in InstIds : coll[i].status = "live" =>
        LET m == coll[i]
            n == Len(m.prefix)
        IN  /\ \A k \in KeyArgs(m) :
                   LET rd == read_through(m, store, k).log
                       fl == flush(staged(m, store, k).c, store).log
                       key == rd[1].key
                   IN  /\ Len(rd) = 1 /\ rd[1].op = "read"
                       /\ Len(fl) = 1 /\ fl[1].op = "write" /\ fl[1].key = key
                       /\ Len(key) = n + 4
                       /\ SubSeq(key, 1, n) = m.prefix
                       /\ key[n + 1] = k % 256 /\ key[n + 2] = (k \div 256) % 256
                       /\ key[n + 3] = (k \div 65536) % 256
                       /\ key[n + 4] = (k \div 16777216) % 256
                       /\ from_le_bytes(SubSeq(key, n + 1, n + 4)) = k
                       /\ \A k2 \in KeyArgs(m) \ {k} : read_through(m, store, k2).log[1].key # key
            /\ \A a, b \in WideKeys :
                   /\ from_le_bytes(SubSeq(index_to_lookup_key(m.prefix, a), n + 1, n + 4)) = a
                   /\ index_to_lookup_key(m.prefix, a) = to_key("u32", m.prefix, a)
                   /\ a # b => /\ index_to_lookup_key(m.prefix, a) # index_to_lookup_key(m.prefix, b)
                               /\ key_serialize("i32", a) # key_serialize("i32", b) =>
                                      to_key("i32", m.prefix, a) # to_key("i32", m.prefix, b)
                               /\ key_serialize("u8", a) # key_serialize("u8", b) =>
                                      to_key("u8", m.prefix, a) # to_key("u8", m.prefix, b)

\* a flush has written the value 10 at index 1 of the Vector with
\* prefix b"v": the store holds it under the five bytes v 01 00 00 00
C33_Witness ==
    /\ lastOp = "flush"
    /\ Live(1, "vec")
    /\ Loaded(coll[1], 1)
    /\ Cell(coll[1], 1) = new_cached(Some(10))
    /\ storage_read(store, <<118, 1, 0, 0, 0>>) = Some(<<10, 0, 0, 0>>)
    /\ read_through(coll[1], store, 1).log = <<ReadOp(<<118, 1, 0, 0, 0>>)>>

\* the Modified slots of m whose value does not serialize
Failing(m) ==
    {k \in ModifiedKeys(m) : IsSome(Cell(m, k).value) /\ ~CanSerialize(m.vt, Unwrap(Cell(m, k).value))}

\* C34: a flush in which the value of a Modified slot fails to serialize ends
\* in the fatal error at the first such slot f in key order: the Modified
\* slots below f have had their store call, the store holds what they held
\* and they are Cached; no store call has been issued for f or any key above
\* it, whose slots and store entries are as they were
C34_FlushNotAtomic ==
    \A i \in InstIds : coll[i].status = "live" =>
        LET m == coll[i]
            fl == flush(m, store)
            f == CHOOSE k \in Failing(m) : \A x \in Failing(m) : k <= x
            Below == {k \in ModifiedKeys(m) : k < f}
        IN  IF Failing(m) = {}
            THEN ~fl.panic
            ELSE /\ fl.panic
                 /\ Len(fl.log) = Cardinality(Below)
                 /\ \A k \in Below :
                        /\ Cardinality({j \in 1..Len(fl.log) : fl.log[j].key = PhysKey(m, k)}) = 1
                        /\ Cell(fl.c, k) = replace_state(Cell(m, k), "Cached")
                        /\ Persisted(fl.c, k, fl.s)
                 /\ \A k \in DOMAIN m.cache : (Loaded(m, k) /\ k >= f) =>
                        /\ Cell(fl.c, k) = Cell(m, k)
                        /\ \A j \in 1..Len(fl.log) : fl.log[j].key # PhysKey(m, k)
                        /\ storage_read(fl.s, PhysKey(m, k)) = storage_read(store, PhysKey(m, k))
                 /\ Cell(fl.c, f).state = "Modified"

\* a flush has ended in the fatal error: the store holds the value of a
\* smaller key, whose slot is Cached, and the failing slot and a staged slot
\* above it are still Modified, with nothing in the store at their keys
C34_Witness ==
    /\ lastOp = "flush"
    /\ \E i \in InstIds :
          /\ coll[i].status = "panicked"
          /\ \E k1, k2, k3 \in DOMAIN coll[i].cache :
                /\ k1 < k2 /\ k2 < k3
                /\ Cell(coll[i], k1) = new_cached(Some(10))
                /\ storage_read(store, PhysKey(coll[i], k1)) = Some(to_le_bytes(10))
                /\ Cell(coll[i], k2) = new_modified(Some(Poison))
                /\ storage_read(store, PhysKey(coll[i], k2)) = None
                /\ Cell(coll[i], k3) = new_modified(Some(10))
                /\ storage_read(store, PhysKey(coll[i], k3)) = None

\* the store holds bytes at the physical key of k that do not decode as m's value type
Undecodable(m, s, k) ==
    LET b == storage_read(s, PhysKey(m, k))
    IN  IsSome(b) /\ ~CanDeserialize(m.vt, Unwrap(b))

\* the call r on m ended in the fatal error at the read-through of key k: it
\* read once, issued no write and no remove, returned nothing and left every
\* slot as it was, that of k without a value
FatalRead(m, s, k, r) ==
    /\ r.panic /\ r.ret = None
    /\ r.log = <<ReadOp(PhysKey(m, k))>>
    /\ r.s = s
    /\ r.c.len = m.len
    /\ ~Loaded(r.c, k)
    /\ \A x \in DOMAIN r.c.cache \ {k} : x \in DOMAIN m.cache /\ r.c.cache[x] = m.cache[x]

\* C35: a get, get_mut, insert, remove or contains_key of a LookupMap, a
\* contains, insert or remove of a LookupSet, or a get, get_mut, pop or
\* swap_remove of a Vector (restored with its length over the store) whose
\* read-through finds bytes that do not decode ends in the fatal error: it
\* returns nothing, issues no storage_write and no storage_remove, and leaves
\* the slot without a cached value
C35_DeserializationFatal ==
    \A i \in InstIds : coll[i].status = "live" =>
        LET m == coll[i]
            v == Vector_deserialize(Vector_serialize(m))
        IN  /\ m.kind = "map" =>
                   \A k \in Keys : (~Loaded(m, k) /\ Undecodable(m, store, k)) =>
                       /\ FatalRead(m, store, k, LookupMap_get(m, store, k))
                       /\ FatalRead(m, store, k, LookupMap_contains_key(m, store, k))
                       /\ FatalRead(m, store, k, LookupMap_insert(m, store, k, 10))
                       /\ FatalRead(m, store, k, LookupMap_remove(m, store, k))
                       /\ \A w \in OptValues :
                              FatalRead(m, store, k, LookupMap_get_mut(m, store, k, w))
            /\ m.kind = "set" =>
                   \A k \in Keys : (~Loaded(m, k) /\ Undecodable(m, store, k)) =>
                       /\ FatalRead(m, store, k, LookupSet_contains(m, store, k))
                       /\ FatalRead(m, store, k, LookupSet_insert(m, store, k))
                       /\ FatalRead(m, store, k, LookupSet_remove(m, store, k))
            /\ m.kind = "vec" =>
                   \A k \in 0..(v.len - 1) : Undecodable(v, store, k) =>
                       /\ FatalRead(v, store, k, Vector_get(v, store, k))
                       /\ FatalRead(v, store, k, Vector_swap_remove(v, store, k))
                       /\ k = v.len - 1 => FatalRead(v, store, k, Vector_pop(v, store))
                       /\ \A w \in OptValues :
                              FatalRead(v, store, k, Vector_get_mut(v, store, k, w))

\* a remove has ended in the fatal error at a key whose stored bytes do not
\* decode: the slot is there without a value and without a physical key, the
\* bytes are still in the store, and a value staged at another key is staged still
C35_Witness ==
    /\ lastOp = "remove"
    /\ coll[1].kind = "map"
    /\ coll[1].status = "panicked"
    /\ \E k, k2 \in DOMAIN coll[1].cache :
          /\ coll[1].cache[k] = DefaultEntryAndHash
          /\ storage_read(store, PhysKey(coll[1], k)) = Some(CorruptBytes)
          /\ Loaded(coll[1], k2)
          /\ Cell(coll[1], k2) = new_modified(Some(-3))
          /\ storage_read(store, PhysKey(coll[1], k2)) = None

\* C36: the serialized form of a Vector is its length as four little-endian
\* bytes followed by the borsh form of the segment, which is its prefix (as a
\* length-prefixed byte string) and nothing of the cache; serializing issues
\* no store call, so what is staged stays staged.  Deserializing those bytes
\* gives a Vector with the same len() and prefix and an empty cache, whose
\* get(i) reads through to the store for i < len() and is absent, without a
\* read, for any other i
C36_SerializedForm ==
    \A i \in InstIds : Live(i, "vec") =>
        LET m == coll[i]
            n == Len(m.prefix)
            bytes == Vector_serialize(m)
            d == Vector_deserialize(bytes)
        IN  /\ Len(bytes) = 8 + n
            /\ SubSeq(bytes, 1, 4) = to_le_bytes(m.len)
            /\ SubSeq(bytes, 5, 8) = <<n, 0, 0, 0>>
            /\ SubSeq(bytes, 9, 8 + n) = m.prefix
            /\ bytes = Vector_serialize([m EXCEPT !.cache = EmptyCache])
            /\ d.len = m.len /\ d.prefix = m.prefix /\ d.cache = EmptyCache
            /\ d.kind = "vec" /\ d.status = "live"
            /\ Vector_serialize(d) = bytes
            /\ \A index \in TopLens \cup IndexArgs :
                   LET got == Vector_get(d, store, index)
                       b == storage_read(store, PhysKey(m, index))
                   IN  IF u32_ge(index, m.len)
                       THEN got.ret = None /\ got.log = <<>> /\ got.c = d
                       ELSE /\ got.log = <<ReadOp(PhysKey(m, index))>>
                            /\ got.s = store
                            /\ ~got.panic =>
                                   got.ret = IF IsSome(b)
                                             THEN Some(try_from_slice(m.vt, Unwrap(b)))
                                             ELSE None

\* a Vector has just been restored from its serialized form with a length
\* near u32::MAX: its cache is empty, and the element an earlier instance
\* pushed and flushed is read from the store
C36_Witness ==
    /\ lastOp = "deserialize"
    /\ Live(1, "vec")
    /\ coll[1].cache = EmptyCache
    /\ coll[1] = Vector_deserialize(Vector_serialize(coll[1]))
    /\ \E index \in TopLens :
          /\ ~u32_ge(index, coll[1].len)
          /\ storage_read(store, PhysKey(coll[1], index)) = Some(to_le_bytes(-3))
          /\ Vector_get(coll[1], store, index).ret = Some(-3)
          /\ Vector_get(coll[1], store, index).log = <<ReadOp(PhysKey(coll[1], index))>>

\* C37 as stated: LookupMap::get_mut(k) on a key whose logical value is absent
\* returns None and leaves the slot of k Cached, and the next flush issues no
\* store call for k
C37_GetMutAbsentCached ==
    \A i \in InstIds : Live(i, "map") =>
        \A k \in Keys, w \in OptValues :
            LET gm == LookupMap_get_mut(coll[i], store, k, w)
            IN  (~gm.panic /\ ~IsSome(LookupMap_get(coll[i], store, k).ret)) =>
                    /\ gm.ret = None
                    /\ SlotState(gm.c, k) = "Cached"
                    /\ FlushCalls(gm.c, gm.s, k) = {}

\* C37, amended: LookupMap::get_mut(k) on a key whose logical value is absent
\* returns None and does not mark the slot: a slot that was not loaded or was
\* Cached is Cached afterwards and the next flush issues no store call for k,
\* while a slot staged as a tombstone stays Modified and the next flush still
\* issues its one storage_remove
C37_GetMutAbsentKeepsState ==
    \A i \in InstIds : Live(i, "map") =>
        \A k \in Keys, w \in OptValues :
            LET m == coll[i]
                gm == LookupMap_get_mut(m, store, k, w)
                tomb == Loaded(m, k) /\ Cell(m, k).state = "Modified"
                log == flush(gm.c, gm.s).log
            IN  (~gm.panic /\ ~IsSome(LookupMap_get(m, store, k).ret)) =>
                    /\ gm.ret = None /\ gm.s = store
                    /\ Loaded(gm.c, k)
                    /\ Cell(gm.c, k) = IF tomb THEN new_modified(None) ELSE new_cached(None)
                    /\ Loaded(m, k) => gm.c = m
                    /\ {j \in 1..Len(log) : log[j].key = PhysKey(m, k)} =
                           {j \in 1..Len(log) : tomb /\ log[j] = RemoveOp(PhysKey(m, k))}
                    /\ tomb <=> \E j \in 1..Len(log) : log[j].key = PhysKey(m, k)
                    /\ log = flush(m, store).log

\* one key is absent and Cached, another is staged as a tombstone over a value
\* the store holds; get_mut returns None for both and changes neither slot
C37_Witness ==
    /\ lastOp = "call"
    /\ Live(1, "map")
    /\ \E k1, k2 \in Keys :
          /\ Loaded(coll[1], k1) /\ Cell(coll[1], k1) = new_cached(None)
          /\ Loaded(coll[1], k2) /\ Cell(coll[1], k2) = new_modified(None)
          /\ storage_read(store, PhysKey(coll[1], k2)) = Some(to_le_bytes(10))
          /\ \A k \in {k1, k2} :
                /\ LookupMap_get_mut(coll[1], store, k, Some(-3)).ret = None
                /\ LookupMap_get_mut(coll[1], store, k, Some(-3)).c = coll[1]

\* the other instance
Other(i) == CHOOSE j \in InstIds : j # i

\* the step is a call of instance i alone
CallOf(i) == coll'[Other(i)] = coll[Other(i)] /\ coll'[i] # coll[i]

\* C38: two LookupMaps with one prefix over one store.  Once instance A has
\* a loaded slot for key K, no insert, remove, get or flush of the other
\* instance changes what A.get(K) returns; and a flush of an instance in which
\* K is Modified leaves the store holding that instance's value for K (its
\* bytes, or nothing for a tombstone) whatever the other instance flushed
\* before, while it leaves alone the store's entry of a key it has not Modified
C38_Aliased ==
    [][\A i \in InstIds :
          /\ CallOf(Other(i)) =>
                 \A k \in Keys : Loaded(coll[i], k) =>
                     /\ Loaded(coll'[i], k)
                     /\ LookupMap_get(coll'[i], store', k).ret = LookupMap_get(coll[i], store, k).ret
                     /\ LookupMap_get(coll'[i], store', k).log = <<>>
          /\ (lastOp' = "flush" /\ coll'[Other(i)] = coll[Other(i)]
                /\ coll'[i].cache = LookupMap_flush(coll[i], store).c.cache) =>
                 \A k \in Keys :
                     IF k \in ModifiedKeys(coll[i])
                     THEN /\ Persisted(coll[i], k, store')
                          /\ LookupMap_get(Fresh(coll[i]), store', k).ret = Cell(coll[i], k).value
                     ELSE storage_read(store', PhysKey(coll[i], k)) =
                              storage_read(store, PhysKey(coll[i], k))]_vars

\* the first instance has flushed 10 under a key, the second has flushed -3
\* over it afterwards: the store holds -3, and the first instance's get is
\* still 10, without a read
C38_Witness ==
    /\ lastOp = "flush"
    /\ \E k \in Keys :
          /\ Loaded(coll[1], k) /\ Cell(coll[1], k) = new_cached(Some(10))
          /\ Loaded(coll[2], k) /\ Cell(coll[2], k) = new_cached(Some(-3))
          /\ coll[1].prefix = coll[2].prefix /\ coll[1].kt = coll[2].kt
          /\ storage_read(store, PhysKey(coll[1], k)) = Some(to_le_bytes(-3))
          /\ LookupMap_get(coll[1], store, k).ret = Some(10)
          /\ LookupMap_get(coll[1], store, k).log = <<>>

\* the memoized physical key of the slot of k (empty: not computed yet)
HashOf(m, k) == m.cache[k].hash

\* C39: the physical key of a LookupMap slot is memoized.  It is computed
\* only while the slot has none: by the read-through, which happens only for
\* a slot that is not loaded, and such a slot has no memoized key; or by a
\* flush that finds a Modified slot without one, which is a slot created by
\* set.  Both store it, it is prefix ++ serialization of the slot's logical
\* key, and once stored it is never changed while the instance lives
C39_MemoizedKey ==
    /\ [](\A i \in InstIds : (Live(i, "map") \/ Live(i, "set")) =>
            LET m == coll[i]
                fl == flush(m, store)
            IN  /\ \A k \in DOMAIN m.cache :
                       /\ ~Loaded(m, k) => HashOf(m, k) = None
                       /\ IsSome(HashOf(m, k)) =>
                              HashOf(m, k) = Some(m.prefix \o to_le_bytes(k))
                       /\ HashOf(fl.c, k) =
                              IF k \in ModifiedKeys(m)
                              THEN Some(m.prefix \o to_le_bytes(k))
                              ELSE HashOf(m, k)
                /\ \A k \in Keys :
                       LET rd == read(m, store, k)
                           st == LookupMap_set(m, store, k, Some(UnitValue))
                       IN  /\ (~Loaded(m, k) /\ ~rd.panic) =>
                                  HashOf(rd.c, k) = Some(rd.log[1].key)
                           /\ (~Loaded(m, k) /\ rd.panic) => HashOf(rd.c, k) = None
                           /\ Loaded(m, k) => rd.c = m
                           /\ HashOf(st.c, k) = IF k \in DOMAIN m.cache THEN HashOf(m, k) ELSE None)
    /\ [][\A i \in InstIds :
             (coll[i].kind \in {"map", "set"} /\ coll[i].status = "live" /\ coll'[i].status # "dead") =>
                 \A k \in DOMAIN coll[i].cache :
                     IsSome(HashOf(coll[i], k)) => HashOf(coll'[i], k) = HashOf(coll[i], k)]_vars

\* one slot was loaded by a read-through and has its physical key; another
\* was created by set, is still Modified and has none until the flush that
\* is about to run computes it
C39_Witness ==
    /\ lastOp = "call"
    /\ Live(1, "map")
    /\ \E k1, k2 \in Keys :
          /\ Loaded(coll[1], k1) /\ Cell(coll[1], k1) = new_cached(Some(10))
          /\ HashOf(coll[1], k1) = Some(<<109, k1, 0, 0, 0>>)
          /\ Loaded(coll[1], k2) /\ Cell(coll[1], k2) = new_modified(Some(-3))
          /\ HashOf(coll[1], k2) = None
          /\ HashOf(flush(coll[1], store).c, k2) = Some(<<109, k2, 0, 0, 0>>)

=============================================================================
